---- MODULE Spec2Model ----
(***************************************************************************)
(* State-machine model of scrapeNaukriJobs (the MongoDB-backed scraper)    *)
(* and of the helpers it calls.  One action per step of the run; the       *)
(* browser, the site and the document store are the environment, whose     *)
(* answers are drawn from small sets.                                      *)
(***************************************************************************)
EXTENDS Integers, Sequences, FiniteSets, TLC

----------------------------------------------------------------------------
(* Bounds of the model                                                     *)

NumUrls == 2
MaxCards == 2
MaxPagesBound == 2
MaxLimit == 1
MaxCand == 2
SitePages == 1
NumTexts == 2
DescStep == 15
MaxDescSteps == 5
MaxTime == 2
MaxBuilds == 4
NumSelectors == 2
MaxElems == 2
MaxStr == 2

(* Program constants                                                       *)

MAX_RETRIES == 3
SHORT_WAIT == 7000
DescMargin == 20

----------------------------------------------------------------------------
(* Values                                                                  *)

Urls == {"u" \o ToString(k) : k \in 1..NumUrls}

NULL == "<null>"
NoUrl == "<none>"
AnyCard == "<any>"
(* no fixed result set: every page load is free to show anything *)
NoSite == [fixed |-> FALSE, pages |-> <<>>, external |-> {}]
NoError == [raised |-> FALSE]
(* OUTPUT_FILE not written by this run; a written file is never empty *)
NoFile == <<>>

Pad(s) == " " \o s \o " "

(* String.prototype.trim on the href readings of the model *)
trim(s) == IF \E u \in Urls \cup {""} : s = Pad(u)
           THEN CHOOSE u \in Urls \cup {""} : s = Pad(u)
           ELSE s

(* what element.getAttribute("href") can yield for a located title element *)
HrefReadings == {NULL, "", Pad("")} \cup Urls \cup {Pad(u) : u \in Urls}

(* one candidate title locator on a card: not located, or located with the
   value getAttribute returns (or Thrown when getAttribute throws)          *)
NotFound == "<notfound>"
Thrown == "<throws>"
CandOutcomes == {NotFound, Thrown} \cup HrefReadings

RECURSIVE SeqsUpTo(_, _)
SeqsUpTo(S, n) == IF n = 0 THEN {<<>>}
                  ELSE LET shorter == SeqsUpTo(S, n - 1)
                       IN shorter \cup {Append(s, x) : s \in {t \in shorter : Len(t) = n - 1}, x \in S}

CandSeqs == {s \in SeqsUpTo(CandOutcomes, MaxCand) : Len(s) = MaxCand}

----------------------------------------------------------------------------
(* Helpers translated from the source                                      *)

(* safeGetAttribute(element, "href"): null element or a throwing read give
   the default null; a present attribute is trimmed                        *)
safeGetAttribute(reading) ==
    IF reading \in {NotFound, Thrown, NULL} THEN NULL ELSE trim(reading)

(* JavaScript truthiness of a string-or-null *)
Truthy(v) == v # NULL /\ v # ""

(* the title/url loop: every located candidate overwrites jobUrl, the loop
   stops at the first truthy href                                          *)
RECURSIVE ResolveJobUrl(_, _, _)
ResolveJobUrl(cands, k, jobUrlSoFar) ==
    IF k > Len(cands) THEN jobUrlSoFar
    ELSE IF cands[k] = NotFound THEN ResolveJobUrl(cands, k + 1, jobUrlSoFar)
    ELSE LET u == safeGetAttribute(cands[k])
         IN IF Truthy(u) THEN u ELSE ResolveJobUrl(cands, k + 1, u)

(* if (!jobUrl) continue; *)
MissingUrlNullOnly(u) == u = NULL
MissingUrl(u) == ~Truthy(u)

(* scrapedUrls.has(jobUrl) *)
IsDuplicateNever(u, known) == FALSE
IsDuplicate(u, known) == u \in known

(* internalCount++ / externalCount++ in the branch of that type *)
CountAfterAlways(count, branch, type) == count + 1
CountAfter(count, branch, type) == count + (IF branch = type THEN 1 ELSE 0)

(* jobsToSave.push(jobData) *)
PushJobReplacing(batch, job) == <<job>>
PushJob(batch, job) == Append(batch, job)

(* scrapedUrls.add(jobUrl) at acceptance *)
MarkScrapedForgets(known, u) == known
MarkScraped(known, u) == known \cup {u}

(* existingJobsCursor.forEach: every stored document with a truthy Job URL *)
LoadExistingUrlsNone(docs) == {}
LoadExistingUrls(docs) == {u \in docs : Truthy(u)}

(* let applicationType = "Internal"; *)
DefaultApplicationTypeUnknown == "Unknown"
DefaultApplicationType == "Internal"

(* the external-apply probe of the detail page: a control absent, present
   but not displayed, or displayed; only a displayed one makes External    *)
ExtProbes == {"absent", "hidden", "displayed"}
ClassifyApplicationType(probe) == IF probe = "displayed" THEN "External" ELSE "Internal"

(* loginToNaukri's guard: if (!email || !password) return false; *)
CredentialsMissingBoth(email, password) == email = "" /\ password = ""
CredentialsMissing(email, password) == email = "" \/ password = ""

(* while (page <= MAX_PAGES_TO_SEARCH) *)
LoopContinuesOffByOne(p, maxPages) == p <= maxPages + 1
LoopContinues(p, maxPages) == p <= maxPages

(* internalCount >= INTERNAL_JOBS_LIMIT && externalCount >= EXTERNAL_JOBS_LIMIT *)
BothLimitsReachedEither(ic, il, ec, el) == ic >= il \/ ec >= el
BothLimitsReached(ic, il, ec, el) == ic >= il /\ ec >= el

(* the acceptance test: which list branch takes the record, if any *)
AcceptBranchInclusive(type, ic, il, ec, el) ==
    IF type = "Internal" /\ ic <= il THEN "Internal"
    ELSE IF type = "External" /\ ec <= el THEN "External"
    ELSE "none"
AcceptBranch(type, ic, il, ec, el) ==
    IF type = "Internal" /\ ic < il THEN "Internal"
    ELSE IF type = "External" /\ ec < el THEN "External"
    ELSE "none"

(* Errors that reach catch (pageError): whether the error is a TimeoutError
   and which keywords its message contains                                 *)
ErrorOf(t, s, c) == [timeout |-> t, session |-> s, captcha |-> c]
CaptchaErrorLowercase == ErrorOf(FALSE, FALSE, FALSE)
CaptchaError == ErrorOf(FALSE, FALSE, TRUE)
DriverErrors == {ErrorOf(TRUE, FALSE, FALSE), ErrorOf(TRUE, TRUE, FALSE),
                 ErrorOf(FALSE, TRUE, FALSE), ErrorOf(FALSE, FALSE, FALSE),
                 ErrorOf(FALSE, TRUE, TRUE)}

(* the if / else-if chain of catch (pageError) *)
ClassifyPageError(e) ==
    IF e.timeout THEN "timeout"
    ELSE IF e.session THEN "recover"
    ELSE IF e.captcha THEN "captcha"
    ELSE "other"


(* initializeDriver: up to MAX_RETRIES build attempts; `failures` is the
   number of consecutive failing attempts the environment delivers         *)
RECURSIVE initializeDriver(_, _)
initializeDriver(retries, failures) ==
    IF retries < MAX_RETRIES
    THEN IF failures > 0
         THEN IF retries + 1 >= MAX_RETRIES THEN "throw"
              ELSE initializeDriver(retries + 1, failures - 1)
         ELSE "driver"
    ELSE "throw"

(* checkIfLoggedIn over what the probes observe: the URL indicator, a
   displayed logged-in indicator, a displayed login button                 *)
LoginObs == [url : BOOLEAN, loggedIn : BOOLEAN, loginButton : BOOLEAN]
checkIfLoggedInFailsOpen(o) ==
    IF o.url THEN TRUE
    ELSE IF o.loggedIn THEN TRUE
    ELSE IF o.loginButton THEN FALSE
    ELSE TRUE
checkIfLoggedIn(o) ==
    IF o.url THEN TRUE
    ELSE IF o.loggedIn THEN TRUE
    ELSE IF o.loginButton THEN FALSE
    ELSE FALSE

(* tryRestoreCookies(driver) over whether COOKIES_FILE exists, how the
   restoration ends and whether unlinkSync works in the catch block:
   "readError" is readFileSync / JSON.parse throwing, "driverError" a
   driver call (get, deleteAllCookies, refresh) throwing, "cookieErrors"
   addCookie throwing for some cookie (caught inside the loops), "applied"
   no error at all                                                         *)
RestoreEndings == {"readError", "driverError", "cookieErrors", "applied"}
tryRestoreCookiesStrict(exists, ending, unlinkOk) ==
    IF ~exists
    THEN [result |-> FALSE, navigated |-> FALSE, file |-> FALSE, unlinked |-> FALSE]
    ELSE IF ending \in {"readError", "driverError", "cookieErrors"}
    THEN [result |-> FALSE, navigated |-> (ending # "readError"),
          file |-> ~unlinkOk, unlinked |-> TRUE]
    ELSE [result |-> TRUE, navigated |-> TRUE, file |-> TRUE, unlinked |-> FALSE]
tryRestoreCookies(exists, ending, unlinkOk) ==
    IF ~exists
    THEN [result |-> FALSE, navigated |-> FALSE, file |-> FALSE, unlinked |-> FALSE]
    ELSE IF ending \in {"readError", "driverError"}
    THEN [result |-> FALSE, navigated |-> (ending = "driverError"),
          file |-> ~unlinkOk, unlinked |-> TRUE]
    ELSE [result |-> TRUE, navigated |-> TRUE, file |-> TRUE, unlinked |-> FALSE]

(* if (isLoggedIn) { await saveCookies(driver); } after loginToNaukri *)
ShouldSaveCookiesAlways(loginResult) == TRUE
ShouldSaveCookies(loginResult) == loginResult

(* loginToNaukri: how an attempt with credentials can end *)
LoginEndings == {"noForm", "captcha", "otp", "verified", "notVerified", "error"}
loginToNaukriIgnoresChallenge(email, password, ending) ==
    IF CredentialsMissing(email, password)
    THEN [result |-> FALSE, navigated |-> FALSE, challenge |-> FALSE]
    ELSE [result |-> (ending \in {"verified", "captcha", "otp"}), navigated |-> TRUE,
          challenge |-> (ending \in {"captcha", "otp"})]
loginToNaukri(email, password, ending) ==
    IF CredentialsMissing(email, password)
    THEN [result |-> FALSE, navigated |-> FALSE, challenge |-> FALSE]
    ELSE [result |-> (ending = "verified"), navigated |-> TRUE,
          challenge |-> (ending \in {"captcha", "otp"})]

----------------------------------------------------------------------------
(* The field helpers and the fallback chains of one card                   *)

(* what parent.findElement / findElements and element.getText can do *)
FindErrors == {"NoSuchElementError", "StaleElementReferenceError", "WebDriverError"}
TextErrors == {"StaleElementReferenceError", "WebDriverError"}
Element == "<element>"

(* safeFindElement over the outcome of parent.findElement(locator): the
   element, or null for NoSuchElementError and for any other error         *)
safeFindElementRethrows(outcome) ==
    IF outcome = "found" THEN Element
    ELSE IF outcome = "NoSuchElementError" THEN NULL
    ELSE Thrown
safeFindElement(outcome) ==
    IF outcome = "found" THEN Element
    ELSE IF outcome = "NoSuchElementError" THEN NULL
    ELSE NULL

(* safeFindElements over the outcome of parent.findElements(locator): the
   list found, or [] on any error                                          *)
safeFindElements(outcome) ==
    IF outcome.error # NULL THEN <<>> ELSE outcome.elements

(* safeGetText(element, defaultValue) over what element.getText() does: a
   null element, a throwing read and an empty text give the default, any
   other text is trimmed                                                   *)
safeGetText(reading, defaultValue) ==
    IF reading = NotFound THEN defaultValue
    ELSE IF reading \in TextErrors THEN defaultValue
    ELSE IF reading = "" THEN defaultValue
    ELSE trim(reading)

(* the chained card fields and their default sentinels *)
ChainFields == {"companyName", "experience", "salary"}
DefaultOf(field) ==
    IF field = "companyName" THEN "Not available"
    ELSE IF field = "experience" THEN "Not specified"
    ELSE IF field = "salary" THEN "Not disclosed"
    ELSE "Not available"

(* texts an element of a card can show *)
Texts == {"t" \o ToString(k) : k \in 1..NumTexts}

(* one candidate locator of a chain: what findElement does and, when it
   finds the element, what getText does                                    *)
Candidate(find, text) == [find |-> find, text |-> text]
CandidatesOf(texts, sentinel) ==
    {Candidate(e, NotFound) : e \in FindErrors}
        \cup {Candidate("found", t) : t \in texts \cup TextErrors \cup {"", sentinel}}
ChainsOf(texts, sentinel) ==
    {c \in SeqsUpTo(CandidatesOf(texts, sentinel), MaxCand) : Len(c) = MaxCand}

(* for (const selector of ...Selectors) { element = safeFindElement(...);
   if (element) { value = safeGetText(element, value);
                  if (value !== sentinel) break; } }
   with the number of candidates that were tried                           *)
RECURSIVE ResolveFieldNoBreak(_, _, _, _)
ResolveFieldNoBreak(cands, k, value, sentinel) ==
    IF k > Len(cands) THEN [value |-> value, attempts |-> Len(cands)]
    ELSE IF safeFindElement(cands[k].find) = NULL
    THEN ResolveFieldNoBreak(cands, k + 1, value, sentinel)
    ELSE ResolveFieldNoBreak(cands, k + 1, safeGetText(cands[k].text, value), sentinel)
RECURSIVE ResolveField(_, _, _, _)
ResolveField(cands, k, value, sentinel) ==
    IF k > Len(cands) THEN [value |-> value, attempts |-> Len(cands)]
    ELSE IF safeFindElement(cands[k].find) = NULL
    THEN ResolveField(cands, k + 1, value, sentinel)
    ELSE LET v == safeGetText(cands[k].text, value)
         IN IF v # sentinel THEN [value |-> v, attempts |-> k]
            ELSE ResolveField(cands, k + 1, v, sentinel)

(* description texts of the model, one for each length DescStep * k *)
RECURSIVE Str(_)
Str(n) == IF n = 0 THEN "" ELSE "x" \o Str(n - 1)
DescTexts == {Str(DescStep * k) : k \in 1..MaxDescSteps}

(* the detail-page description loop: a candidate that is not located in
   time is skipped; a located one replaces the description when its text
   is more than DescMargin characters longer, which ends the loop          *)
DetailReadings == {NotFound, ""} \cup TextErrors \cup DescTexts
DetailChains == {c \in SeqsUpTo(DetailReadings, MaxCand) : Len(c) = MaxCand}
RECURSIVE ResolveDetailDescription(_, _, _)
ResolveDetailDescription(cands, k, detailedDescription) ==
    IF k > Len(cands) THEN detailedDescription
    ELSE IF cands[k] = NotFound THEN ResolveDetailDescription(cands, k + 1, detailedDescription)
    ELSE LET detailText == safeGetText(cands[k], "")
         IN IF Truthy(detailText) /\ Len(detailText) > Len(detailedDescription) + DescMargin
            THEN detailText
            ELSE ResolveDetailDescription(cands, k + 1, detailedDescription)

(* catch (detailError): a TimeoutError replaces the description *)
DetailTimeoutMessage == "Details page did not load correctly or structure changed."
DetailError(t, w) == [raised |-> TRUE, timeout |-> t, noSuchWindow |-> w]
NoDetailError == [raised |-> FALSE, timeout |-> FALSE, noSuchWindow |-> FALSE]
DetailErrors == {DetailError(TRUE, FALSE), DetailError(TRUE, TRUE),
                 DetailError(FALSE, TRUE), DetailError(FALSE, FALSE)}
DescriptionAfterCatch(e, description) ==
    IF e.timeout THEN DetailTimeoutMessage ELSE description

(* value || "Not available" *)
OrDefault(v, d) == IF Truthy(v) THEN v ELSE d

----------------------------------------------------------------------------
VARIABLES
    EMAIL, PASSWORD, INTERNAL_JOBS_LIMIT, EXTERNAL_JOBS_LIMIT, MAX_PAGES_TO_SEARCH,
    site,            \* the result set when it is held fixed over two runs, else NoSite
    run,             \* 1 or 2
    storeAtStart,    \* Job URLs in the collection when the current run started
    store,           \* Job URLs of the documents in the collection
    cookieFile,      \* whether COOKIES_FILE exists
    outFile,         \* contents of OUTPUT_FILE as written by this run, or NoFile
    saveLog,         \* what the save at the end of the run attempted
    pc,              \* position of the run
    driver, mongoClient,
    resources,       \* browsers started and not ended, the store connection, and
                     \* whether a quit() or a close() threw
    session,         \* "none", "cookies" (restored) or "login": isLoggedIn is session # "none"
    loginCalls, loginNavs, reinits,
    restored,        \* what tryRestoreCookies just returned: "true", "false", or "none"
                     \* before it is called and once the login phase is over
    cookiesSaved,    \* the login that just returned was followed by saveCookies
                     \* (until the loop head is reached)
    loginChallenge,  \* the loginToNaukri call that just returned stopped on the CAPTCHA/OTP
                     \* check (until the loop head is reached)
    page, jobCards, i, fetched, stopReason, pageError,
    jobsToSave, internalCount, externalCount, newJobsCount, scrapedUrls,
    jobUrl, applicationType, newWindowHandle,
    currentWindow, originalOpen, detailTabOpen,
    cardLog,         \* how the card last processed on this page ended
    scanLog,         \* what the scan of the page being processed found
    captchaPage,     \* page on which the scanner met the CAPTCHA marker, 0 if none
    faulted,         \* some step of the environment failed since the first run began
    exitCode,
    fpc,             \* position in the field-level processing of one card, "idle" in a run
    chainLog,        \* the chain resolved last: field, candidates, value, candidates tried
    safeLog,         \* the safe helper called last: helper, input, result
    jobDescription, detailedDescription,
    summaryDescription,     \* jobDescription as the card's snippet chain left it
    detailError,     \* the error caught by catch (detailError), if any
    recordDescription,      \* jobData["Job Description"]
    unitLog          \* one call of a helper function: its input and what it returned

cfgVars == <<EMAIL, PASSWORD, INTERNAL_JOBS_LIMIT, EXTERNAL_JOBS_LIMIT,
             MAX_PAGES_TO_SEARCH, site, run, storeAtStart>>
fileVars == <<store, cookieFile, outFile, saveLog>>
sessVars == <<driver, mongoClient, session, loginCalls, loginNavs, loginChallenge, reinits,
             restored, cookiesSaved, resources>>
loopVars == <<page, jobCards, i, fetched, stopReason, pageError>>
bookVars == <<jobsToSave, internalCount, externalCount, newJobsCount, scrapedUrls>>
cardVars == <<jobUrl, applicationType, newWindowHandle>>
winVars == <<currentWindow, originalOpen, detailTabOpen>>
logVars == <<cardLog, captchaPage, scanLog>>
fieldVars == <<fpc, chainLog, safeLog, jobDescription, detailedDescription,
               summaryDescription, detailError, recordDescription, unitLog>>
runVars == <<cfgVars, fileVars, sessVars, loopVars, bookVars, cardVars, winVars, logVars,
             pc, faulted, exitCode>>
vars == <<runVars, fieldVars>>

NoCard == [outcome |-> "none", url |-> NULL, hrefSeen |-> FALSE, visit |-> "none"]

(* no page scanned *)
NoScan == [scanned |-> FALSE, found |-> FALSE, fallback |-> FALSE, captcha |-> FALSE,
           noResults |-> FALSE, banner |-> FALSE]

(* nothing saved yet *)
NoSave == [file |-> "none", db |-> "none", ops |-> <<>>]

NoChain == [field |-> "none", cands |-> <<>>, value |-> NULL, attempts |-> 0]

(* one call of a safe helper: the helper, what the driver call inside it
   does (arg: outcome or reading; list: the elements found) and the
   default passed to it; and what the helper hands back                    *)
SafeCall(helper, arg, list, dflt) ==
    [helper |-> helper, arg |-> arg, list |-> list, dflt |-> dflt]
SafeResult(value, list) == [value |-> value, list |-> list]
NoCall == [helper |-> "none", input |-> SafeCall("none", NULL, <<>>, NULL),
           result |-> SafeResult(NULL, <<>>)]

(* no helper function called *)
NoUnit == [unit |-> "none", input |-> NULL, output |-> NULL]

(* the field-level locals as declared at the top of the for body *)
FieldLocalsInit ==
    /\ chainLog = NoChain /\ safeLog = NoCall
    /\ jobDescription = DefaultOf("jobDescription")
    /\ detailedDescription = DefaultOf("jobDescription")
    /\ summaryDescription = DefaultOf("jobDescription")
    /\ detailError = NoDetailError
    /\ recordDescription = NULL

isLoggedIn == session # "none"

BatchUrls == {jobsToSave[k].url : k \in 1..Len(jobsToSave)}

LimitsReached ==
    BothLimitsReached(internalCount, INTERNAL_JOBS_LIMIT, externalCount, EXTERNAL_JOBS_LIMIT)

CurrentWindowOpen ==
    \/ currentWindow = "original" /\ originalOpen
    \/ currentWindow = "detail" /\ detailTabOpen

(* the locals of scrapeNaukriJobs as declared at its top *)
(* no browser started, no connection opened *)
NoResources == [browsers |-> 0, quitFailed |-> FALSE, connOpen |-> FALSE, closeFailed |-> FALSE]

(* if (driver) { try { await driver.quit() } catch { log } }: quitOk is
   whether quit() returned, gone whether the browser has ended all the same *)
ShouldQuitNever(d) == FALSE
ShouldQuit(d) == d = "live"
AfterQuit(res, d, quitOk, gone) ==
    IF ShouldQuit(d)
    THEN [res EXCEPT !.browsers = IF quitOk \/ gone THEN @ - 1 ELSE @,
                     !.quitFailed = @ \/ ~quitOk]
    ELSE res

(* if (mongoClient) { try { await mongoClient.close() } catch { log } } *)
AfterClose(res, client, closeOk) ==
    IF client = "none" THEN res
    ELSE [res EXCEPT !.connOpen = IF closeOk THEN FALSE ELSE @,
                     !.closeFailed = @ \/ ~closeOk]

(* a driver was built *)
AfterBuild(res) == [res EXCEPT !.browsers = @ + 1]

RunInit ==
    /\ pc = "connect"
    /\ driver = "none" /\ mongoClient = "none" /\ session = "none"
    /\ resources = NoResources
    /\ loginCalls = 0 /\ loginNavs = 0 /\ loginChallenge = FALSE /\ reinits = 0
    /\ restored = "none" /\ cookiesSaved = FALSE
    /\ page = 1 /\ jobCards = <<>> /\ i = 1 /\ fetched = <<>>
    /\ stopReason = "none" /\ pageError = NoError
    /\ jobsToSave = <<>> /\ internalCount = 0 /\ externalCount = 0
    /\ newJobsCount = 0 /\ scrapedUrls = {}
    /\ jobUrl = NULL /\ applicationType = DefaultApplicationType /\ newWindowHandle = FALSE
    /\ currentWindow = "original" /\ originalOpen = TRUE /\ detailTabOpen = FALSE
    /\ cardLog = NoCard /\ captchaPage = 0 /\ scanLog = NoScan
    /\ outFile = NoFile /\ saveLog = NoSave /\ exitCode = NULL

Init ==
    /\ EMAIL \in {"", "e"} /\ PASSWORD \in {"", "p"}
    /\ INTERNAL_JOBS_LIMIT \in 0..MaxLimit
    /\ EXTERNAL_JOBS_LIMIT \in 0..MaxLimit
    /\ MAX_PAGES_TO_SEARCH \in 0..MaxPagesBound
    /\ site = NoSite /\ run = 1
    /\ store \in SUBSET Urls /\ storeAtStart = store
    /\ cookieFile \in BOOLEAN
    /\ faulted = FALSE
    /\ RunInit
    /\ fpc = "idle" /\ FieldLocalsInit /\ unitLog = NoUnit

----------------------------------------------------------------------------
(* MongoClient.connect, createIndex and the load of the existing Job URLs  *)
Connect ==
    /\ pc = "connect"
    /\ \E ok \in BOOLEAN :
         IF ok
         THEN /\ mongoClient' = "connected"
              /\ resources' = [resources EXCEPT !.connOpen = TRUE]
              /\ scrapedUrls' = LoadExistingUrls(store)
              /\ pc' = "initDriver"
              /\ UNCHANGED faulted
         ELSE /\ mongoClient' = "failed"
              /\ UNCHANGED resources
              /\ pc' = "fatal"
              /\ faulted' = TRUE
              /\ UNCHANGED scrapedUrls
    /\ UNCHANGED <<logVars, cfgVars, fieldVars, fileVars, driver, session, loginCalls, loginNavs, loginChallenge, reinits,
                   restored, cookiesSaved,
                   loopVars, jobsToSave, internalCount, externalCount, newJobsCount,
                   cardVars, winVars, exitCode>>

(* driver = await initializeDriver() *)
InitDriver ==
    /\ pc = "initDriver"
    /\ \E failures \in 0..MAX_RETRIES :
         IF initializeDriver(0, failures) = "driver"
         THEN /\ driver' = "live" /\ pc' = "restore" /\ UNCHANGED faulted
              /\ resources' = AfterBuild(resources)
         ELSE /\ pc' = "fatal" /\ faulted' = TRUE /\ UNCHANGED <<driver, resources>>
    /\ UNCHANGED <<logVars, cfgVars, fieldVars, fileVars, mongoClient, session, loginCalls, loginNavs, loginChallenge, reinits,
                   restored, cookiesSaved,
                   loopVars, bookVars, cardVars, winVars, exitCode>>

(* driver.get(home), tryRestoreCookies and, when it reports true,
   checkIfLoggedIn (deleteAllCookies on a negative check)                  *)
RestoreSession ==
    /\ pc = "restore"
    /\ \/ \* driver.get of the home page or deleteAllCookies throws
          /\ pc' = "fatal" /\ faulted' = TRUE
          /\ UNCHANGED <<session, cookieFile, restored>>
       \/ \E ending \in RestoreEndings, unlinkOk \in BOOLEAN :
            LET r == tryRestoreCookies(cookieFile, ending, unlinkOk)
            IN /\ cookieFile' = r.file
               /\ restored' = IF r.result THEN "true" ELSE "false"
               /\ IF r.result
                  THEN \E o \in LoginObs :
                         session' = IF checkIfLoggedIn(o) THEN "cookies" ELSE "none"
                  ELSE UNCHANGED session
               /\ pc' = "login"
               /\ UNCHANGED faulted
    /\ UNCHANGED <<logVars, cfgVars, fieldVars, store, outFile, saveLog, driver, mongoClient, resources, loginCalls, loginNavs, loginChallenge,
                   cookiesSaved, reinits, loopVars, bookVars, cardVars, winVars, exitCode>>

(* if (!isLoggedIn && EMAIL && PASSWORD) { login; saveCookies on success } *)
LoginPhase ==
    /\ pc = "login"
    /\ IF ~isLoggedIn /\ Truthy(EMAIL) /\ Truthy(PASSWORD)
       THEN \E ending \in LoginEndings, saved \in BOOLEAN :
              LET r == loginToNaukri(EMAIL, PASSWORD, ending)
              IN /\ loginCalls' = loginCalls + 1
                 /\ loginNavs' = loginNavs + (IF r.navigated THEN 1 ELSE 0)
                 /\ loginChallenge' = r.challenge
                 /\ session' = IF r.result THEN "login" ELSE "none"
                 /\ cookiesSaved' = ShouldSaveCookies(r.result)
                 /\ cookieFile' = IF ShouldSaveCookies(r.result) /\ saved THEN TRUE ELSE cookieFile
                 /\ (~ShouldSaveCookies(r.result) => saved)
       ELSE UNCHANGED <<loginCalls, loginNavs, loginChallenge, session, cookieFile, cookiesSaved>>
    /\ restored' = "none"
    /\ pc' = "loop"
    /\ UNCHANGED <<logVars, cfgVars, fieldVars, store, outFile, saveLog, driver, mongoClient, resources, reinits,
                   loopVars, bookVars, cardVars, winVars, faulted, exitCode>>


----------------------------------------------------------------------------
(* What one load of a search-results page shows: a container locator
   matched, the fallback found a card directly, the page source holds the
   CAPTCHA / no-results text, the no-results element is displayed, and how
   many cards the card locators enumerate                                  *)
PageObs == [container : BOOLEAN, directCard : BOOLEAN, captcha : BOOLEAN,
            noResults : BOOLEAN, banner : BOOLEAN, n : 0..MaxCards]

(* jobCards after the enumeration; a null container enumerates to [] *)
CardsFound(o, p) ==
    IF ~(o.container \/ o.directCard) THEN <<>>
    ELSE IF ~site.fixed THEN [k \in 1..o.n |-> AnyCard]
    ELSE IF o.n = 0 \/ p \notin DOMAIN site.pages THEN <<>>
    ELSE site.pages[p]

(* the checks between the page load and the card loop *)
ScanOutcomeFirstPageStops(o, p) ==
    IF ~o.container /\ ~o.directCard /\ o.captcha THEN "captcha"
    ELSE IF ~o.container /\ ~o.directCard /\ o.noResults THEN "noResults"
    ELSE IF ~o.container /\ ~o.directCard THEN "endOfResults"
    ELSE IF CardsFound(o, p) = <<>> /\ p > 1 THEN "endOfResults"
    ELSE IF CardsFound(o, p) = <<>> /\ p = 1 /\ o.banner THEN "noResults"
    ELSE "cards"
ScanOutcomeIgnoresMarker(o, p) ==
    IF ~o.container /\ ~o.directCard /\ o.captcha THEN "captcha"
    ELSE IF ~o.container /\ ~o.directCard /\ p > 1 THEN "endOfResults"
    ELSE IF CardsFound(o, p) = <<>> /\ p > 1 THEN "endOfResults"
    ELSE IF CardsFound(o, p) = <<>> /\ p = 1 /\ o.banner THEN "noResults"
    ELSE "cards"
ScanOutcome(o, p) ==
    IF ~o.container /\ ~o.directCard /\ o.captcha THEN "captcha"
    ELSE IF ~o.container /\ ~o.directCard /\ o.noResults THEN "noResults"
    ELSE IF ~o.container /\ ~o.directCard /\ p > 1 THEN "endOfResults"
    ELSE IF CardsFound(o, p) = <<>> /\ p > 1 THEN "endOfResults"
    ELSE IF CardsFound(o, p) = <<>> /\ p = 1 /\ o.banner THEN "noResults"
    ELSE "cards"

(* what the scan read: whether a container or a card was found, which
   markers the page source held when neither was (it is read only then),
   and whether the no-results element was displayed when page 1 had no
   cards                                                                   *)
ScanOf(o, p) ==
    LET found == o.container \/ o.directCard
    IN [scanned |-> TRUE, found |-> found, fallback |-> ~o.container /\ o.directCard,
        captcha |-> ~found /\ o.captcha,
        noResults |-> ~found /\ o.noResults,
        banner |-> ScanOutcome(o, p) = "noResults" /\ ~(~found /\ o.noResults)]

(* the observation that shows the page as it is, when the result set is fixed *)
FaithfulObs(o, p) ==
    site.fixed =>
        /\ p \in DOMAIN site.pages
        /\ o.n \in {0, Len(site.pages[p])}

ObsIsFault(o, p) ==
    \/ ~o.container
    \/ o.captcha
    \/ site.fixed /\ p \in DOMAIN site.pages /\ o.n # Len(site.pages[p])

(* head of the while loop and one page: driver.get, container and card
   enumeration, CAPTCHA / no-results / end-of-results checks               *)
FetchPage ==
    /\ pc = "loop"
    /\ LoopContinues(page, MAX_PAGES_TO_SEARCH)
    /\ ~LimitsReached
    /\ fetched' = Append(fetched, page)
    /\ \/ \E e \in DriverErrors :
            /\ pageError' = e /\ pc' = "pageError" /\ faulted' = TRUE
            /\ UNCHANGED <<jobCards, i, stopReason, captchaPage, scanLog>>
       \/ /\ CurrentWindowOpen
          /\ \E o \in PageObs :
               /\ FaithfulObs(o, page)
               /\ faulted' = (faulted \/ ObsIsFault(o, page))
               /\ scanLog' = ScanOf(o, page)
               /\ captchaPage' = IF ~o.container /\ ~o.directCard /\ o.captcha
                                 THEN page ELSE captchaPage
               /\ LET out == ScanOutcome(o, page)
                  IN IF out = "captcha"
                     THEN /\ pageError' = CaptchaError /\ pc' = "pageError"
                          /\ UNCHANGED <<jobCards, i, stopReason>>
                     ELSE IF out = "cards"
                     THEN /\ jobCards' = CardsFound(o, page) /\ i' = 1 /\ pc' = "cards"
                          /\ UNCHANGED <<stopReason, pageError>>
                     ELSE /\ stopReason' = out /\ pc' = "save"
                          /\ UNCHANGED <<jobCards, i, pageError>>
    /\ loginChallenge' = FALSE /\ cookiesSaved' = FALSE
    /\ UNCHANGED <<cfgVars, fieldVars, fileVars, driver, mongoClient, resources, session, loginCalls,
                   loginNavs, reinits, restored, page, bookVars, cardVars, winVars, cardLog, exitCode>>

(* the while condition fails, or both limits are reached: leave the loop *)
LoopExit ==
    /\ pc = "loop"
    /\ ~LoopContinues(page, MAX_PAGES_TO_SEARCH) \/ LimitsReached
    /\ stopReason' = IF ~LoopContinues(page, MAX_PAGES_TO_SEARCH) THEN "maxPages" ELSE "limits"
    /\ pc' = "save"
    /\ loginChallenge' = FALSE /\ cookiesSaved' = FALSE
    /\ UNCHANGED <<logVars, cfgVars, fieldVars, fileVars, driver, mongoClient, resources, session, loginCalls,
                   loginNavs, reinits, restored, page, jobCards, i, fetched, pageError,
                   bookVars, cardVars, winVars, faulted, exitCode>>

(* page++ before continue, after the driver was reinitialized *)
PageAfterRecoveryRetries(p) == p
PageAfterRecovery(p) == p + 1

(* catch (pageError) *)
PageErrorHandler ==
    /\ pc = "pageError"
    /\ pageError' = NoError
    /\ LET kind == ClassifyPageError(pageError)
       IN \/ /\ kind = "recover"
             /\ \E failures \in 0..MAX_RETRIES, ending \in LoginEndings, saved \in BOOLEAN,
                   quitOk \in BOOLEAN, gone \in BOOLEAN :
                  IF initializeDriver(0, failures) = "driver"
                  THEN LET r == loginToNaukri(EMAIL, PASSWORD, ending)
                       IN /\ driver' = "live"
                          /\ (quitOk => gone)
                          /\ resources' = AfterBuild(AfterQuit(resources, driver, quitOk, gone))
                          /\ currentWindow' = "original" /\ originalOpen' = TRUE
                          /\ detailTabOpen' = FALSE
                          /\ loginCalls' = loginCalls + 1
                          /\ loginNavs' = loginNavs + (IF r.navigated THEN 1 ELSE 0)
                          /\ loginChallenge' = r.challenge
                          /\ session' = IF r.result THEN "login" ELSE "none"
                          /\ cookiesSaved' = ShouldSaveCookies(r.result)
                          /\ cookieFile' = IF ShouldSaveCookies(r.result) /\ saved
                                           THEN TRUE ELSE cookieFile
                          /\ (~ShouldSaveCookies(r.result) => saved)
                          /\ reinits' = reinits + 1
                          /\ page' = PageAfterRecovery(page)
                          /\ pc' = "loop"
                          /\ UNCHANGED stopReason
                  ELSE /\ driver' = "none"
                       /\ (quitOk => gone)
                       /\ resources' = AfterQuit(resources, driver, quitOk, gone)
                       /\ pc' = "fatal"
                       /\ ending = "error" /\ saved
                       /\ UNCHANGED <<winVars, loginCalls, loginNavs, loginChallenge, cookiesSaved, session, cookieFile,
                                      reinits, page, stopReason>>
          \/ /\ kind = "captcha"
             /\ stopReason' = "captcha"
             /\ pc' = "save"
             /\ UNCHANGED <<driver, resources, winVars, loginCalls, loginNavs, loginChallenge, cookiesSaved, session, cookieFile,
                            reinits, page>>
          \/ /\ kind \in {"timeout", "other"}
             /\ page' = page + 1
             /\ pc' = "loop"
             /\ UNCHANGED <<driver, resources, winVars, loginCalls, loginNavs, loginChallenge, cookiesSaved, session, cookieFile,
                            reinits, stopReason>>
    /\ UNCHANGED <<logVars, cfgVars, fieldVars, store, outFile, saveLog, mongoClient, restored, jobCards, i, fetched,
                   bookVars, cardVars, faulted, exitCode>>


----------------------------------------------------------------------------
(* the per-card locals as declared at the top of the for body *)
CardLocalsReset ==
    /\ jobUrl' = NULL
    /\ applicationType' = DefaultApplicationType
    /\ newWindowHandle' = FALSE

(* whether some located title candidate of the card carries a non-empty href *)
HrefSeen(cands) ==
    \E k \in 1..Len(cands) : cands[k] \in Urls \cup {Pad(u) : u \in Urls}

(* what the title/url loop leaves for a card, over every way the title
   candidates can answer: the resolved jobUrl and whether a non-empty href
   was among the located candidates                                        *)
CardReadings ==
    {[url |-> ResolveJobUrl(cands, 1, NULL), hrefSeen |-> HrefSeen(cands)] : cands \in CandSeqs}

(* what a card of a fixed result set resolves to *)
CardKey(u) == IF Truthy(u) THEN u ELSE NoUrl

(* one card up to the duplicate check: limit check, scroll, title and URL
   resolution, missing-URL skip, duplicate skip, summary fields            *)
CardStart ==
    /\ pc = "cards"
    /\ i <= Len(jobCards)
    /\ ~LimitsReached
    /\ \/ \* the scroll script or getWindowHandle throws: catch (cardError), next card
          /\ i' = i + 1
          /\ faulted' = TRUE
          /\ cardLog' = [NoCard EXCEPT !.outcome = "error"]
          /\ UNCHANGED <<pc, cardVars>>
       \/ \E r \in CardReadings :
            LET u == r.url
                seen == r.hrefSeen
            IN /\ jobCards[i] \in {AnyCard, CardKey(u)}
               /\ IF MissingUrl(u)
                  THEN /\ i' = i + 1
                       /\ cardLog' = [outcome |-> "missingUrl", url |-> u,
                                      hrefSeen |-> seen, visit |-> "none"]
                       /\ UNCHANGED <<pc, cardVars>>
                  ELSE IF IsDuplicate(u, scrapedUrls)
                  THEN /\ i' = i + 1
                       /\ cardLog' = [outcome |-> "duplicate", url |-> u,
                                      hrefSeen |-> seen, visit |-> "none"]
                       /\ UNCHANGED <<pc, cardVars>>
                  ELSE /\ jobUrl' = u
                       /\ applicationType' = DefaultApplicationType
                       /\ newWindowHandle' = FALSE
                       /\ cardLog' = [outcome |-> "visiting", url |-> u,
                                      hrefSeen |-> seen, visit |-> "none"]
                       /\ pc' = "detail"
                       /\ UNCHANGED i
               /\ UNCHANGED faulted
    /\ UNCHANGED <<cfgVars, fieldVars, fileVars, sessVars, page, jobCards, fetched, stopReason,
                   pageError, bookVars, winVars, captchaPage, scanLog, exitCode>>

(* the for loop ends: no card left, or both limits reached (break) *)
CardLoopEnd ==
    /\ pc = "cards"
    /\ i > Len(jobCards) \/ LimitsReached
    /\ pc' = "pageDone"
    /\ UNCHANGED <<logVars, cfgVars, fieldVars, fileVars, sessVars, loopVars, bookVars, cardVars, winVars,
                   faulted, exitCode>>

(* window.open, getAllWindowHandles, switchTo().window(newWindowHandle) *)
OpenDetail ==
    /\ pc = "detail"
    /\ \/ \* window.open or getAllWindowHandles throws: no tab, no handle
          /\ pc' = "cleanup" /\ faulted' = TRUE
          /\ cardLog' = [cardLog EXCEPT !.visit = "failed"]
          /\ UNCHANGED <<newWindowHandle, winVars>>
       \/ \* no new handle is listed (the tab may still appear afterwards)
          /\ \E late \in BOOLEAN : detailTabOpen' = late
          /\ pc' = "cleanup" /\ faulted' = TRUE
          /\ cardLog' = [cardLog EXCEPT !.visit = "failed"]
          /\ UNCHANGED <<newWindowHandle, currentWindow, originalOpen>>
       \/ \* the handle is found but the switch throws; on "no such window"
          \* the catch clears the handle
          /\ \E gone \in BOOLEAN :
               /\ detailTabOpen' = ~gone
               /\ newWindowHandle' = ~gone
          /\ pc' = "cleanup" /\ faulted' = TRUE
          /\ cardLog' = [cardLog EXCEPT !.visit = "failed"]
          /\ UNCHANGED <<currentWindow, originalOpen>>
       \/ \* switched to the new tab
          /\ detailTabOpen' = TRUE
          /\ newWindowHandle' = TRUE
          /\ currentWindow' = "detail"
          /\ pc' = "inDetail"
          /\ cardLog' = [cardLog EXCEPT !.visit = "ok"]
          /\ UNCHANGED <<originalOpen, faulted>>
    /\ UNCHANGED <<cfgVars, fieldVars, fileVars, sessVars, loopVars, bookVars, jobUrl,
                   applicationType, captchaPage, scanLog, exitCode>>

(* the probes of the detail page a fixed result set allows for a job *)
ProbesFor(u) ==
    IF ~site.fixed THEN ExtProbes
    ELSE IF u \in site.external THEN {"displayed"}
    ELSE {"absent", "hidden"}

(* extraction and classification on the detail page; every probe there is
   wrapped in its own try/catch                                            *)
ScrapeDetail ==
    /\ pc = "inDetail"
    /\ \E probe \in ProbesFor(jobUrl) :
         applicationType' = ClassifyApplicationType(probe)
    /\ pc' = "cleanup"
    /\ UNCHANGED <<logVars, cfgVars, fieldVars, fileVars, sessVars, loopVars, bookVars, jobUrl,
                   newWindowHandle, winVars, faulted, exitCode>>

(* catch (cardError): the error thrown when the switch back fails ends
   the card loop of the page, any other error goes on to the next card     *)
SwitchBackError == [stale |-> FALSE, switchBack |-> TRUE]
ClassifyCardErrorContinues(e) == "next"
ClassifyCardError(e) ==
    IF e.stale THEN "next"
    ELSE IF e.switchBack THEN "break"
    ELSE "next"

(* finally: close the tab when the handle is set, switch back to the
   original window; a failed switch throws "Failed to switch back", which
   catch (cardError) turns into a break of the card loop                   *)
DetailCleanup ==
    /\ pc = "cleanup"
    /\ \E closeOk \in BOOLEAN, switchOk \in BOOLEAN :
         LET closes == newWindowHandle /\ closeOk /\ CurrentWindowOpen
             origAfter == IF closes /\ currentWindow = "original" THEN FALSE
                          ELSE originalOpen
             tabAfter == IF closes /\ currentWindow = "detail" THEN FALSE
                         ELSE detailTabOpen
         IN /\ originalOpen' = origAfter
            /\ detailTabOpen' = tabAfter
            /\ IF switchOk /\ origAfter
               THEN /\ currentWindow' = "original"
                    /\ pc' = "accept"
                    /\ faulted' = (faulted \/ (newWindowHandle /\ ~closeOk))
                    /\ UNCHANGED <<cardVars, cardLog, i>>
               ELSE /\ currentWindow' = currentWindow
                    /\ IF ClassifyCardError(SwitchBackError) = "break"
                       THEN pc' = "pageDone" /\ i' = i
                       ELSE pc' = "cards" /\ i' = i + 1
                    /\ faulted' = TRUE
                    /\ cardLog' = [cardLog EXCEPT !.outcome = "switchBack"]
                    /\ CardLocalsReset
    /\ UNCHANGED <<cfgVars, fieldVars, fileVars, sessVars, page, jobCards, fetched, stopReason,
                   pageError, bookVars, captchaPage, scanLog, exitCode>>

(* jobData and the acceptance into jobsToSave *)
JobData(u, type) == [url |-> u, type |-> type]

AcceptJob ==
    /\ pc = "accept"
    /\ LET branch == AcceptBranch(applicationType, internalCount, INTERNAL_JOBS_LIMIT,
                                  externalCount, EXTERNAL_JOBS_LIMIT)
       IN IF branch = "none"
          THEN UNCHANGED bookVars
          ELSE /\ jobsToSave' = PushJob(jobsToSave, JobData(jobUrl, applicationType))
               /\ scrapedUrls' = MarkScraped(scrapedUrls, jobUrl)
               /\ internalCount' = CountAfter(internalCount, branch, "Internal")
               /\ externalCount' = CountAfter(externalCount, branch, "External")
               /\ newJobsCount' = newJobsCount + 1
    /\ cardLog' = [cardLog EXCEPT !.outcome =
                      IF AcceptBranch(applicationType, internalCount, INTERNAL_JOBS_LIMIT,
                                      externalCount, EXTERNAL_JOBS_LIMIT) = "none"
                      THEN "limit" ELSE "accepted"]
    /\ i' = i + 1
    /\ pc' = "cards"
    /\ CardLocalsReset
    /\ UNCHANGED <<cfgVars, fieldVars, fileVars, sessVars, page, jobCards, fetched, stopReason,
                   pageError, winVars, captchaPage, scanLog, faulted, exitCode>>

(* page++ at the end of the while body *)
PageDone ==
    /\ pc = "pageDone"
    /\ page' = page + 1
    /\ jobCards' = <<>> /\ i' = 1
    /\ cardLog' = NoCard /\ scanLog' = NoScan
    /\ pc' = "loop"
    /\ UNCHANGED <<cfgVars, fieldVars, fileVars, sessVars, fetched, stopReason, pageError,
                   bookVars, cardVars, winVars, captchaPage, faulted, exitCode>>

----------------------------------------------------------------------------
(* if (jobsToSave.length > 0) *)
HasJobsToSaveNever(batch) == FALSE
HasJobsToSave(batch) == Len(batch) > 0

(* the updateOne operations built from the batch: filter on the Job URL,
   $set of the whole record, upsert                                        *)
Operations(batch) ==
    [k \in DOMAIN batch |-> [filter |-> batch[k].url, set |-> batch[k], upsert |-> TRUE]]

(* the update document of one operation: $set of the record with
   lastUpdated, $setOnInsert of firstScraped, both new Date()              *)
UpdateOfSetsFirstScraped(job, now) ==
    [set |-> [job |-> job, lastUpdated |-> now, firstScraped |-> now],
     setOnInsert |-> [firstScraped |-> now]]
UpdateOf(job, now) ==
    [set |-> [job |-> job, lastUpdated |-> now],
     setOnInsert |-> [firstScraped |-> now]]

(* the operations handed to bulkWrite, with their update documents *)
BulkOperations(batch, now) ==
    [k \in DOMAIN batch |->
        [filter |-> Operations(batch)[k].filter,
         update |-> UpdateOf(Operations(batch)[k].set, now),
         upsert |-> Operations(batch)[k].upsert]]

(* fields of b laid over those of a *)
Merge(a, b) ==
    [f \in DOMAIN a \cup DOMAIN b |-> IF f \in DOMAIN b THEN b[f] ELSE a[f]]

(* updateOne with upsert on a collection keyed by Job URL: a matching
   document gets the $set fields; with no match and upsert, a document of
   the $setOnInsert and $set fields is inserted                            *)
ApplyUpdateOne(docs, op) ==
    IF op.filter \in DOMAIN docs
    THEN [docs EXCEPT ![op.filter] = Merge(@, op.update.set)]
    ELSE IF op.upsert
    THEN [u \in DOMAIN docs \cup {op.filter} |->
            IF u = op.filter THEN Merge(op.update.setOnInsert, op.update.set)
            ELSE docs[u]]
    ELSE docs

RECURSIVE bulkWrite(_, _, _)
bulkWrite(docs, ops, k) ==
    IF k > Len(ops) THEN docs
    ELSE bulkWrite(ApplyUpdateOne(docs, ops[k]), ops, k + 1)

(* what follows jobsCollection.bulkWrite in the save step: its catch only
   logs, so the JSON backup comes next whether or not it threw             *)
AfterBulkWriteRethrows(dbOk) == IF dbOk THEN "backup" ELSE "throw"
AfterBulkWrite(dbOk) == "backup"

(* Save Results: bulk upsert by Job URL, then the JSON backup *)
SaveResults ==
    /\ pc = "save"
    /\ IF HasJobsToSave(jobsToSave)
       THEN \E dbOk \in BOOLEAN, fileOk \in BOOLEAN :
              /\ store' = IF dbOk THEN store \cup BatchUrls ELSE store
              /\ faulted' = (faulted \/ ~dbOk \/ ~fileOk)
              /\ IF AfterBulkWrite(dbOk) = "backup"
                 THEN /\ outFile' = IF fileOk THEN jobsToSave ELSE outFile
                      /\ saveLog' = [file |-> IF fileOk THEN "written" ELSE "failed",
                                     db |-> IF dbOk THEN "upserted" ELSE "failed",
                                     ops |-> Operations(jobsToSave)]
                      /\ pc' = "finally"
                 ELSE /\ outFile' = outFile
                      /\ saveLog' = [file |-> "none", db |-> "failed",
                                     ops |-> Operations(jobsToSave)]
                      /\ pc' = "fatal"
       ELSE /\ pc' = "finally"
            /\ UNCHANGED <<store, outFile, saveLog, faulted>>
    /\ UNCHANGED <<logVars, cfgVars, fieldVars, cookieFile, sessVars, loopVars, bookVars, cardVars, winVars,
                   exitCode>>

(* the outermost catch: partial results to the file, then to the store when
   the client reports a live connection                                    *)
FatalHandler ==
    /\ pc = "fatal"
    /\ stopReason' = "fatal"
    /\ IF HasJobsToSave(jobsToSave)
       THEN \E dbOk \in BOOLEAN, fileOk \in BOOLEAN, alive \in BOOLEAN :
              LET connected == mongoClient = "connected" /\ alive
              IN /\ outFile' = IF fileOk THEN jobsToSave ELSE outFile
                 /\ store' = IF connected /\ dbOk THEN store \cup BatchUrls ELSE store
                 /\ (~connected => dbOk)
                 /\ saveLog' = [file |-> IF fileOk THEN "written" ELSE "failed",
                                db |-> IF ~connected THEN "skipped"
                                       ELSE IF dbOk THEN "upserted" ELSE "failed",
                                ops |-> IF connected THEN Operations(jobsToSave) ELSE <<>>]
       ELSE UNCHANGED <<store, outFile, saveLog>>
    /\ pc' = "finally"
    /\ UNCHANGED <<logVars, cfgVars, fieldVars, cookieFile, sessVars, page, jobCards, i, fetched, pageError,
                   bookVars, cardVars, winVars, faulted, exitCode>>

(* how scrapeNaukriJobs ends: both `return newJobsCount` statements, the
   one after the save and the one in the outermost catch, fulfil the
   promise; the entry point exits with 0 from then and 1 from catch        *)
PromiseOf(ending) == IF ending \in {"return", "catchReturn"} THEN "fulfilled" ELSE "rejected"
ExitCodeOf(promise) == IF promise = "fulfilled" THEN "0" ELSE "1"

(* finally: quit the driver, close the client; both returns of
   scrapeNaukriJobs resolve the promise, whose then-branch exits with 0    *)
Finally ==
    /\ pc = "finally"
    /\ driver' = IF ShouldQuit(driver) THEN "quit" ELSE driver
    /\ mongoClient' = IF mongoClient = "none" THEN "none" ELSE "closed"
    /\ \E quitOk \in BOOLEAN, gone \in BOOLEAN, closeOk \in BOOLEAN :
         /\ (quitOk => gone)
         /\ resources' = AfterClose(AfterQuit(resources, driver, quitOk, gone),
                                    mongoClient, closeOk)
    /\ exitCode' = ExitCodeOf(PromiseOf(IF stopReason = "fatal" THEN "catchReturn" ELSE "return"))
    /\ pc' = "exit"
    /\ UNCHANGED <<logVars, cfgVars, fieldVars, fileVars, session, loginCalls, loginNavs, loginChallenge, reinits,
                   restored, cookiesSaved,
                   loopVars, bookVars, cardVars, winVars, faulted>>

(* the process is started again on the same result set and the same
   configuration; the collection is what the first run left                *)
StartSecondRun ==
    /\ pc = "exit" /\ run = 1 /\ site.fixed
    /\ run' = 2
    /\ storeAtStart' = store
    /\ pc' = "connect"
    /\ driver' = "none" /\ mongoClient' = "none" /\ session' = "none"
    /\ resources' = NoResources
    /\ loginCalls' = 0 /\ loginNavs' = 0 /\ loginChallenge' = FALSE /\ reinits' = 0
    /\ restored' = "none" /\ cookiesSaved' = FALSE
    /\ page' = 1 /\ jobCards' = <<>> /\ i' = 1 /\ fetched' = <<>>
    /\ stopReason' = "none" /\ pageError' = NoError
    /\ jobsToSave' = <<>> /\ internalCount' = 0 /\ externalCount' = 0
    /\ newJobsCount' = 0 /\ scrapedUrls' = {}
    /\ CardLocalsReset
    /\ currentWindow' = "original" /\ originalOpen' = TRUE /\ detailTabOpen' = FALSE
    /\ cardLog' = NoCard /\ captchaPage' = 0 /\ scanLog' = NoScan
    /\ outFile' = NoFile /\ saveLog' = NoSave /\ exitCode' = NULL
    /\ UNCHANGED <<EMAIL, PASSWORD, INTERNAL_JOBS_LIMIT, EXTERNAL_JOBS_LIMIT,
                   MAX_PAGES_TO_SEARCH, site, store, cookieFile, faulted, fieldVars>>

Next ==
    \/ Connect \/ InitDriver \/ RestoreSession \/ LoginPhase
    \/ FetchPage \/ LoopExit \/ PageErrorHandler
    \/ CardStart \/ CardLoopEnd \/ OpenDetail \/ ScrapeDetail \/ DetailCleanup
    \/ AcceptJob \/ PageDone
    \/ SaveResults \/ FatalHandler \/ Finally

Spec == Init /\ [][Next]_vars

(* the run is one sequential async function: while a step is possible the
   run goes on and takes one                                               *)
SpecLive == Init /\ [][Next]_vars /\ WF_vars(Next)

(* Two runs in a row over one fixed result set: which cards each page lists
   (by the URL a card resolves to) and which jobs show a displayed
   apply-on-company-site control                                           *)
Sites == [fixed : {TRUE}, pages : [1..SitePages -> SeqsUpTo(Urls, MaxCards)],
          external : SUBSET Urls]
SiteUrls == {u \in Urls : \E p \in DOMAIN site.pages :
                              \E k \in 1..Len(site.pages[p]) : site.pages[p][k] = u}

InitTwoRuns ==
    /\ EMAIL = "" /\ PASSWORD = ""
    /\ INTERNAL_JOBS_LIMIT \in 0..MaxLimit
    /\ EXTERNAL_JOBS_LIMIT \in 0..MaxLimit
    /\ MAX_PAGES_TO_SEARCH \in 1..SitePages
    /\ site \in Sites /\ run = 1
    /\ store = {} /\ storeAtStart = store
    /\ cookieFile = FALSE
    /\ faulted = FALSE
    /\ RunInit
    /\ fpc = "idle" /\ FieldLocalsInit /\ unitLog = NoUnit

NextTwoRuns == Next \/ StartSecondRun

SpecTwoRuns == InitTwoRuns /\ [][NextTwoRuns]_vars

----------------------------------------------------------------------------
(* The field-level processing of one card: the fallback chains, the safe
   helpers, and the description from the card snippet to the record        *)

(* one fallback chain of the card: company, experience or salary *)
ResolveCardField ==
    /\ fpc = "start"
    /\ \E f \in ChainFields :
         \E cands \in ChainsOf(Texts, DefaultOf(f)) :
            LET r == ResolveField(cands, 1, DefaultOf(f), DefaultOf(f))
            IN chainLog' = [field |-> f, cands |-> cands,
                            value |-> r.value, attempts |-> r.attempts]
    /\ fpc' = "fieldDone"
    /\ UNCHANGED <<runVars, unitLog, safeLog, jobDescription, detailedDescription,
                   summaryDescription, detailError, recordDescription>>

(* the calls of the safe helpers the card makes *)
ElementLists == SeqsUpTo({Element}, MaxCand)
SafeCalls ==
    {SafeCall("safeFindElement", o, <<>>, NULL) : o \in {"found"} \cup FindErrors}
        \cup {SafeCall("safeFindElements", NULL, l, NULL) : l \in ElementLists}
        \cup {SafeCall("safeFindElements", e, <<>>, NULL) : e \in FindErrors}
        \cup {SafeCall("safeGetText", r, <<>>, d) :
                 r \in {NotFound, ""} \cup TextErrors \cup Texts \cup {Pad(u) : u \in Urls},
                 d \in {"", "Not available"}}
        \cup {SafeCall("safeGetAttribute", r, <<>>, NULL) : r \in CandOutcomes}
ApplySafe(call) ==
    IF call.helper = "safeFindElement" THEN SafeResult(safeFindElement(call.arg), <<>>)
    ELSE IF call.helper = "safeFindElements"
    THEN SafeResult(NULL, safeFindElements([error |-> call.arg, elements |-> call.list]))
    ELSE IF call.helper = "safeGetText" THEN SafeResult(safeGetText(call.arg, call.dflt), <<>>)
    ELSE SafeResult(safeGetAttribute(call.arg), <<>>)

CallSafeHelper ==
    /\ fpc = "start"
    /\ \E call \in SafeCalls :
         safeLog' = [helper |-> call.helper, input |-> call, result |-> ApplySafe(call)]
    /\ fpc' = "helperDone"
    /\ UNCHANGED <<runVars, unitLog, chainLog, jobDescription, detailedDescription,
                   summaryDescription, detailError, recordDescription>>

(* the description snippet chain of the card, then
   let detailedDescription = jobDescription                                *)
ResolveSnippet ==
    /\ fpc = "start"
    /\ \E cands \in ChainsOf(DescTexts, DefaultOf("jobDescription")) :
         LET r == ResolveField(cands, 1, DefaultOf("jobDescription"),
                               DefaultOf("jobDescription"))
         IN /\ jobDescription' = r.value
            /\ summaryDescription' = r.value
            /\ detailedDescription' = r.value
    /\ fpc' = "visit"
    /\ UNCHANGED <<runVars, unitLog, chainLog, safeLog, detailError, recordDescription>>

(* window.open, getAllWindowHandles, switchTo: the tab is entered, or one
   of them throws into catch (detailError)                                 *)
OpenDetailPage ==
    /\ fpc = "visit"
    /\ \/ fpc' = "detailPage" /\ UNCHANGED detailError
       \/ \E e \in DetailErrors : detailError' = e /\ fpc' = "detailCatch"
    /\ UNCHANGED <<runVars, unitLog, chainLog, safeLog, jobDescription, detailedDescription,
                   summaryDescription, recordDescription>>

(* the detail description loop and jobDescription = detailedDescription;
   nothing on the detail page throws past its own try/catch                *)
ReadDetailDescription ==
    /\ fpc = "detailPage"
    /\ \E cands \in DetailChains :
         /\ detailedDescription' = ResolveDetailDescription(cands, 1, detailedDescription)
         /\ jobDescription' = ResolveDetailDescription(cands, 1, detailedDescription)
    /\ fpc' = "jobData"
    /\ UNCHANGED <<runVars, unitLog, chainLog, safeLog, summaryDescription, detailError,
                   recordDescription>>

(* catch (detailError) *)
CatchDetailError ==
    /\ fpc = "detailCatch"
    /\ jobDescription' = DescriptionAfterCatch(detailError, jobDescription)
    /\ fpc' = "jobData"
    /\ UNCHANGED <<runVars, unitLog, chainLog, safeLog, detailedDescription, summaryDescription,
                   detailError, recordDescription>>

(* jobData["Job Description"] = jobDescription || "Not available" *)
BuildJobData ==
    /\ fpc = "jobData"
    /\ recordDescription' = OrDefault(jobDescription, "Not available")
    /\ fpc' = "recorded"
    /\ UNCHANGED <<runVars, unitLog, chainLog, safeLog, jobDescription, detailedDescription,
                   summaryDescription, detailError>>

(* one card, from the top of the for body *)
InitCard ==
    /\ EMAIL = "" /\ PASSWORD = ""
    /\ INTERNAL_JOBS_LIMIT = MaxLimit /\ EXTERNAL_JOBS_LIMIT = MaxLimit
    /\ MAX_PAGES_TO_SEARCH = 1
    /\ site = NoSite /\ run = 1
    /\ store = {} /\ storeAtStart = store
    /\ cookieFile = FALSE
    /\ faulted = FALSE
    /\ RunInit
    /\ fpc = "start" /\ FieldLocalsInit /\ unitLog = NoUnit

NextCard ==
    \/ ResolveCardField \/ CallSafeHelper
    \/ ResolveSnippet \/ OpenDetailPage \/ ReadDetailDescription \/ CatchDetailError
    \/ BuildJobData

SpecCard == InitCard /\ [][NextCard]_vars

----------------------------------------------------------------------------
(* The helper functions of the run, each called once on every input        *)

(* what checkIfLoggedIn's probes can observe: getCurrentUrl gives a URL of
   the members-only area, another URL, or throws; each indicator locator
   is located and displayed, located but not displayed, not located in time
   or fails with another error                                             *)
UrlProbes == {"member", "other", "error"}
IndicatorProbes == {"displayed", "hidden", "absent", "error"}
IndicatorSeqs == {q \in SeqsUpTo(IndicatorProbes, MaxCand) : Len(q) = MaxCand}
LoginProbes == [url : UrlProbes, loggedIn : IndicatorSeqs, loggedOut : IndicatorSeqs]

(* what the probes amount to: an erroring probe is caught and passed over *)
ObserveLogin(p) ==
    [url |-> p.url = "member",
     loggedIn |-> \E k \in 1..Len(p.loggedIn) : p.loggedIn[k] = "displayed",
     loginButton |-> \E k \in 1..Len(p.loggedOut) : p.loggedOut[k] = "displayed"]

CallCheckIfLoggedIn ==
    /\ fpc = "unit"
    /\ \E p \in LoginProbes :
         unitLog' = [unit |-> "checkIfLoggedIn", input |-> p,
                     output |-> checkIfLoggedIn(ObserveLogin(p))]
    /\ fpc' = "unitDone"
    /\ UNCHANGED <<runVars, chainLog, safeLog, jobDescription, detailedDescription,
                   summaryDescription, detailError, recordDescription>>

CallTryRestoreCookies ==
    /\ fpc = "unit"
    /\ \E exists \in BOOLEAN, ending \in RestoreEndings, unlinkOk \in BOOLEAN :
         unitLog' = [unit |-> "tryRestoreCookies",
                     input |-> [exists |-> exists, ending |-> ending, unlinkOk |-> unlinkOk],
                     output |-> tryRestoreCookies(exists, ending, unlinkOk)]
    /\ fpc' = "unitDone"
    /\ UNCHANGED <<runVars, chainLog, safeLog, jobDescription, detailedDescription,
                   summaryDescription, detailError, recordDescription>>

(* initializeDriver step by step: builds[k] is what the k-th call of
   Builder().build() does; the result names the build whose driver is
   returned, the number of builds made and the delays waited              *)
RECURSIVE initializeDriverKeepsTrying(_, _, _)
initializeDriverKeepsTrying(retries, builds, waits) ==
    IF retries < Len(builds)
    THEN IF builds[retries + 1] = "ok"
         THEN [result |-> "driver", driver |-> retries + 1,
               attempts |-> retries + 1, waits |-> waits]
         ELSE initializeDriverKeepsTrying(retries + 1, builds, Append(waits, SHORT_WAIT))
    ELSE [result |-> "throw", driver |-> 0, attempts |-> retries, waits |-> waits]

RECURSIVE initializeDriverSteps(_, _, _)
initializeDriverSteps(retries, builds, waits) ==
    IF retries < MAX_RETRIES
    THEN IF builds[retries + 1] = "ok"
         THEN [result |-> "driver", driver |-> retries + 1,
               attempts |-> retries + 1, waits |-> waits]
         ELSE IF retries + 1 >= MAX_RETRIES
              THEN [result |-> "throw", driver |-> 0,
                    attempts |-> retries + 1, waits |-> waits]
              ELSE initializeDriverSteps(retries + 1, builds, Append(waits, SHORT_WAIT))
    ELSE [result |-> "throw", driver |-> 0, attempts |-> retries, waits |-> waits]

BuildOutcomes == [1..MaxBuilds -> {"ok", "fail"}]

CallInitializeDriver ==
    /\ fpc = "unit"
    /\ \E builds \in BuildOutcomes :
         unitLog' = [unit |-> "initializeDriver",
                     input |-> builds,
                     output |-> initializeDriverSteps(0, builds, <<>>)]
    /\ fpc' = "unitDone"
    /\ UNCHANGED <<runVars, chainLog, safeLog, jobDescription, detailedDescription,
                   summaryDescription, detailError, recordDescription>>

(* the application-type check of the detail page.  For each selector of
   externalButtonSelectors, findElements either throws or returns elements,
   and isDisplayed of an element answers or throws; an exception leaves the
   selector for the next one                                               *)
RECURSIVE ScanButtons(_, _)
ScanButtons(elements, k) ==
    IF k > Len(elements) THEN FALSE
    ELSE IF elements[k] = "throws" THEN FALSE
    ELSE IF elements[k] = "displayed" THEN TRUE
    ELSE ScanButtons(elements, k + 1)

RECURSIVE ScanExternalSelectors(_, _)
ScanExternalSelectors(controls, s) ==
    IF s > Len(controls) THEN "Internal"
    ELSE IF controls[s].found /\ ScanButtons(controls[s].elements, 1) THEN "External"
    ELSE ScanExternalSelectors(controls, s + 1)

(* applyButtonFound of the second check *)
ApplyButtonFound(apply) == apply = "displayed"

CheckApplicationTypeMissingApply(controls, apply) ==
    LET type == ScanExternalSelectors(controls, 1)
    IN IF type = "Internal"
       THEN IF ~ApplyButtonFound(apply) THEN "External" ELSE "Internal"
       ELSE type

CheckApplicationType(controls, apply) ==
    LET type == ScanExternalSelectors(controls, 1)
    IN IF type = "Internal"
       THEN IF ~ApplyButtonFound(apply) THEN "Internal" ELSE "Internal"
       ELSE type

SelectorProbes ==
    {[found |-> FALSE, elements |-> <<>>]}
    \cup {[found |-> TRUE, elements |-> e] :
             e \in SeqsUpTo({"hidden", "displayed", "throws"}, MaxElems)}
ControlProbes == [1..NumSelectors -> SelectorProbes]
ApplyProbes == {"absent", "hidden", "displayed", "throws"}

CallCheckApplicationType ==
    /\ fpc = "unit"
    /\ \E controls \in ControlProbes, apply \in ApplyProbes :
         unitLog' = [unit |-> "applicationType",
                     input |-> [controls |-> controls, apply |-> apply],
                     output |-> CheckApplicationType(controls, apply)]
    /\ fpc' = "unitDone"
    /\ UNCHANGED <<runVars, chainLog, safeLog, jobDescription, detailedDescription,
                   summaryDescription, detailError, recordDescription>>

(* the search URL.  A string is a sequence of characters; the literal
   parts of the URL are single items, none of which holds a '?'            *)
Chars == {"A", "a", " ", "?"}
Strings == SeqsUpTo(Chars, MaxStr)
toLowerCase(c) == IF c = "A" THEN "a" ELSE c
IsSpace(c) == c = " "

(* s.toLowerCase().replace(/\s+/g, "-") *)
RECURSIVE FormatForUrl(_, _)
FormatForUrl(s, k) ==
    IF k > Len(s) THEN <<>>
    ELSE IF IsSpace(s[k])
         THEN IF k > 1 /\ IsSpace(s[k - 1]) THEN FormatForUrl(s, k + 1)
              ELSE <<"-">> \o FormatForUrl(s, k + 1)
         ELSE <<toLowerCase(s[k])>> \o FormatForUrl(s, k + 1)

ExperienceGiven(experience) == experience # "" /\ experience # "0"

SearchUrlBase(query, location, experience) ==
    <<"https://www.naukri.com/">> \o FormatForUrl(query, 1) \o <<"-jobs-in-">>
        \o FormatForUrl(location, 1)
        \o (IF ExperienceGiven(experience) THEN <<"?", "experience=", experience>>
            ELSE <<>>)

SearchUrlParamsAlwaysQuestion(experience) == "?"
SearchUrlParams(experience) == IF ExperienceGiven(experience) THEN "&" ELSE "?"

CurrentPageUrl(query, location, experience, p) ==
    SearchUrlBase(query, location, experience)
        \o (IF p > 1 THEN <<SearchUrlParams(experience), "pageNo=", ToString(p)>>
            ELSE <<>>)

Experiences == {"0", "5"}

CallCurrentPageUrl ==
    /\ fpc = "unit"
    /\ \E query \in Strings, location \in Strings, experience \in Experiences,
          p \in 1..MaxPagesBound :
         unitLog' = [unit |-> "currentPageUrl",
                     input |-> [query |-> query, location |-> location,
                                experience |-> experience, page |-> p],
                     output |-> CurrentPageUrl(query, location, experience, p)]
    /\ fpc' = "unitDone"
    /\ UNCHANGED <<runVars, chainLog, safeLog, jobDescription, detailedDescription,
                   summaryDescription, detailError, recordDescription>>

(* the title and URL loop of a card.  The k-th title locator, when it
   matches, gives a link with its own text and its own href; getText and
   getAttribute read them, or read nothing, or throw                       *)
TitleText(k) == "t" \o ToString(k)
TitleHref(k) == "u" \o ToString(k)
TitleCandidates(k) ==
    {[found |-> FALSE, text |-> NotFound, href |-> NotFound]}
    \cup {[found |-> TRUE, text |-> t, href |-> h] :
             t \in {TitleText(k), "", "StaleElementReferenceError"},
             h \in {TitleHref(k), NULL, Thrown}}
TitleCandSeqs ==
    {c \in [1..MaxCand -> UNION {TitleCandidates(k) : k \in 1..MaxCand}] :
        \A k \in 1..MaxCand : c[k] \in TitleCandidates(k)}

RECURSIVE ResolveTitleAndUrl(_, _, _, _)
ResolveTitleAndUrl(cands, k, jobTitleSoFar, jobUrlSoFar) ==
    IF k > Len(cands) THEN [title |-> jobTitleSoFar, url |-> jobUrlSoFar]
    ELSE IF ~cands[k].found
    THEN ResolveTitleAndUrl(cands, k + 1, jobTitleSoFar, jobUrlSoFar)
    ELSE LET t == safeGetText(cands[k].text, jobTitleSoFar)
             u == safeGetAttribute(cands[k].href)
         IN IF Truthy(u) THEN [title |-> t, url |-> u]
            ELSE ResolveTitleAndUrl(cands, k + 1, t, u)

CallResolveTitleAndUrl ==
    /\ fpc = "unit"
    /\ \E cands \in TitleCandSeqs :
         unitLog' = [unit |-> "titleAndUrl",
                     input |-> cands,
                     output |-> ResolveTitleAndUrl(cands, 1, "Not available", NULL)]
    /\ fpc' = "unitDone"
    /\ UNCHANGED <<runVars, chainLog, safeLog, jobDescription, detailedDescription,
                   summaryDescription, detailError, recordDescription>>

(* the detail-page description loop on its own: the description the card
   left (its snippet, or the sentinel) and what the detail locators read  *)
CallResolveDetailDescription ==
    /\ fpc = "unit"
    /\ \E cands \in DetailChains,
          snippet \in {DefaultOf("jobDescription")} \cup DescTexts :
         unitLog' = [unit |-> "detailDescription",
                     input |-> [cands |-> cands, snippet |-> snippet],
                     output |-> ResolveDetailDescription(cands, 1, snippet)]
    /\ fpc' = "unitDone"
    /\ UNCHANGED <<runVars, chainLog, safeLog, jobDescription, detailedDescription,
                   summaryDescription, detailError, recordDescription>>

(* checkIfLoggedIn statement by statement: the indicator loops stop at the
   first locator found displayed; the result tells which test returned and
   how many locators of each list were consulted                           *)
RECURSIVE ProbeIndicators(_, _)
ProbeIndicators(q, k) ==
    IF k > Len(q) THEN [displayed |-> FALSE, consulted |-> Len(q)]
    ELSE IF q[k] = "displayed" THEN [displayed |-> TRUE, consulted |-> k]
    ELSE ProbeIndicators(q, k + 1)

checkIfLoggedInButtonsFirst(p) ==
    LET in == ProbeIndicators(p.loggedIn, 1)
        out == ProbeIndicators(p.loggedOut, 1)
    IN IF p.url = "member"
       THEN [result |-> TRUE, by |-> "url", loggedIn |-> 0, loggedOut |-> 0]
       ELSE IF out.displayed
       THEN [result |-> FALSE, by |-> "loginButton", loggedIn |-> 0,
             loggedOut |-> out.consulted]
       ELSE IF in.displayed
       THEN [result |-> TRUE, by |-> "loggedIn", loggedIn |-> in.consulted,
             loggedOut |-> out.consulted]
       ELSE [result |-> FALSE, by |-> "default", loggedIn |-> in.consulted,
             loggedOut |-> out.consulted]

checkIfLoggedInSteps(p) ==
    LET in == ProbeIndicators(p.loggedIn, 1)
        out == ProbeIndicators(p.loggedOut, 1)
    IN IF p.url = "member"
       THEN [result |-> TRUE, by |-> "url", loggedIn |-> 0, loggedOut |-> 0]
       ELSE IF in.displayed
       THEN [result |-> TRUE, by |-> "loggedIn", loggedIn |-> in.consulted,
             loggedOut |-> 0]
       ELSE IF out.displayed
       THEN [result |-> FALSE, by |-> "loginButton", loggedIn |-> in.consulted,
             loggedOut |-> out.consulted]
       ELSE [result |-> FALSE, by |-> "default", loggedIn |-> in.consulted,
             loggedOut |-> out.consulted]

CallCheckIfLoggedInSteps ==
    /\ fpc = "unit"
    /\ \E p \in LoginProbes :
         unitLog' = [unit |-> "checkIfLoggedInSteps", input |-> p,
                     output |-> checkIfLoggedInSteps(p)]
    /\ fpc' = "unitDone"
    /\ UNCHANGED <<runVars, chainLog, safeLog, jobDescription, detailedDescription,
                   summaryDescription, detailError, recordDescription>>

(* the collection before a save at time `now`: documents keyed by Job URL,
   each first scraped and last updated at earlier times                    *)
JobsOf(u) == {JobData(u, t) : t \in {"Internal", "External"}}
DocsOf(u, now) ==
    {[job |-> j, lastUpdated |-> lu, firstScraped |-> fs] :
        j \in JobsOf(u), lu \in 0..(now - 1), fs \in 0..(now - 1)}
Collections(now) ==
    UNION {{d \in [D -> UNION {DocsOf(u, now) : u \in D}] :
               \A u \in D : d[u].job.url = u /\ d[u].firstScraped <= d[u].lastUpdated} :
           D \in SUBSET Urls}

(* a batch: records with distinct Job URLs *)
Batches ==
    {b \in SeqsUpTo(UNION {JobsOf(u) : u \in Urls}, MaxCards) :
        \A x, y \in 1..Len(b) : x # y => b[x].url # b[y].url}

CallBulkWrite ==
    /\ fpc = "unit"
    /\ \E now \in 1..MaxTime :
         \E docs \in Collections(now), batch \in Batches :
            unitLog' = [unit |-> "bulkWrite",
                        input |-> [docs |-> docs, batch |-> batch, now |-> now],
                        output |-> bulkWrite(docs, BulkOperations(batch, now), 1)]
    /\ fpc' = "unitDone"
    /\ UNCHANGED <<runVars, chainLog, safeLog, jobDescription, detailedDescription,
                   summaryDescription, detailError, recordDescription>>

InitUnits ==
    /\ EMAIL = "" /\ PASSWORD = ""
    /\ INTERNAL_JOBS_LIMIT = MaxLimit /\ EXTERNAL_JOBS_LIMIT = MaxLimit
    /\ MAX_PAGES_TO_SEARCH = 1
    /\ site = NoSite /\ run = 1
    /\ store = {} /\ storeAtStart = store
    /\ cookieFile = FALSE
    /\ faulted = FALSE
    /\ RunInit
    /\ fpc = "unit" /\ FieldLocalsInit /\ unitLog = NoUnit

NextUnits ==
    \/ CallCheckIfLoggedIn \/ CallTryRestoreCookies \/ CallBulkWrite
    \/ CallInitializeDriver
    \/ CallCheckApplicationType
    \/ CallCurrentPageUrl
    \/ CallResolveTitleAndUrl
    \/ CallResolveDetailDescription
    \/ CallCheckIfLoggedInSteps

SpecUnits == InitUnits /\ [][NextUnits]_vars




----------------------------------------------------------------------------
(* Properties                                                              *)

InCard == pc \in {"detail", "inDetail", "cleanup", "accept"}
AfterLoop == pc \in {"save", "fatal", "finally", "exit"}
BothFull == internalCount >= INTERNAL_JOBS_LIMIT /\ externalCount >= EXTERNAL_JOBS_LIMIT

(* C1: the records accumulated in jobsToSave have pairwise distinct Job
   URLs, in every state of a run, whatever cards and pages are met.        *)
C1_DistinctUrls ==
    \A a, b \in 1..Len(jobsToSave) : a # b => jobsToSave[a].url # jobsToSave[b].url

(* a card carrying the URL of a record already in the batch was just skipped *)
C1_Witness ==
    /\ cardLog.outcome = "duplicate"
    /\ \E k \in 1..Len(jobsToSave) : jobsToSave[k].url = cardLog.url

(* C2: neither category count, nor the number of batch records of that
   category, ever exceeds the configured limit of the category.            *)
C2_WithinLimits ==
    /\ internalCount <= INTERNAL_JOBS_LIMIT
    /\ externalCount <= EXTERNAL_JOBS_LIMIT
    /\ Cardinality({k \in 1..Len(jobsToSave) : jobsToSave[k].type = "Internal"})
          <= INTERNAL_JOBS_LIMIT
    /\ Cardinality({k \in 1..Len(jobsToSave) : jobsToSave[k].type = "External"})
          <= EXTERNAL_JOBS_LIMIT

(* a visited job was turned away because its category was full while the
   other category still had room                                           *)
C2_Witness ==
    /\ cardLog.outcome = "limit"
    /\ INTERNAL_JOBS_LIMIT >= 1
    /\ internalCount = INTERNAL_JOBS_LIMIT
    /\ externalCount < EXTERNAL_JOBS_LIMIT

(* C3: no record of the batch carries a URL that was in the store when the
   run started; once the store has been read the known-URL set holds every
   stored URL, and that is before the first page is fetched.               *)
C3_NoStoredUrlEmitted ==
    /\ \A k \in 1..Len(jobsToSave) : jobsToSave[k].url \notin storeAtStart
    /\ (fetched # <<>> \/ pc \in {"initDriver", "restore", "login", "loop"})
          => storeAtStart \subseteq scrapedUrls

(* a card whose URL was stored before the run was skipped as a duplicate,
   in a run that also accepted a record                                    *)
C3_Witness ==
    /\ cardLog.outcome = "duplicate"
    /\ cardLog.url \in storeAtStart
    /\ jobsToSave # <<>>

(* C4, as stated: a second run over the unchanged result set, seeded from
   the store the first run left, accepts nothing -- here even restricted to
   runs in which no step of the environment failed.                        *)
C4_SecondRunAcceptsNothing ==
    (run = 2 /\ ~faulted) => jobsToSave = <<>>

(* C4, amended: the second run accepts no record whose URL is in the store
   the first run left, and accepts nothing at all when every card URL of
   the result set is in that store.                                        *)
C4_SecondRunSkipsStored ==
    run = 2 =>
        /\ \A k \in 1..Len(jobsToSave) : jobsToSave[k].url \notin storeAtStart
        /\ (SiteUrls \subseteq storeAtStart => jobsToSave = <<>>)

(* a second run that went through a page whose URLs were all stored by the
   first run, skipping a card as a duplicate                               *)
C4_Witness ==
    /\ run = 2
    /\ SiteUrls # {} /\ SiteUrls \subseteq storeAtStart
    /\ cardLog.outcome = "duplicate"
    /\ jobsToSave = <<>>

(* C5: every batch record has a non-empty Job URL; a card is skipped for a
   missing URL exactly when none of its located title candidates carries a
   non-empty href, and that skip changes neither the counts, nor the
   known-URL set, nor the batch.                                           *)
C5_UrlPresent ==
    /\ [](/\ \A k \in 1..Len(jobsToSave) :
                jobsToSave[k].url # NULL /\ jobsToSave[k].url # ""
          /\ InCard => (jobUrl # NULL /\ jobUrl # "")
          /\ cardLog.outcome = "missingUrl" => ~cardLog.hrefSeen
          /\ cardLog.outcome \in {"duplicate", "visiting", "accepted", "limit", "switchBack"}
                => cardLog.hrefSeen)
    /\ [][cardLog'.outcome = "missingUrl" => UNCHANGED bookVars]_vars

(* a card whose title element was located but has an empty href was
   skipped, in a run that already holds a record                           *)
C5_Witness ==
    /\ cardLog.outcome = "missingUrl"
    /\ cardLog.url = ""
    /\ jobsToSave # <<>>

(* C6: every batch record is Internal or External, and so is the type held
   for the card being processed at every point of its detail visit, also
   when the visit fails before the classification.                         *)
C6_TypeKnown ==
    /\ \A k \in 1..Len(jobsToSave) : jobsToSave[k].type \in {"Internal", "External"}
    /\ InCard => applicationType \in {"Internal", "External"}

(* a record was accepted although its detail visit failed *)
C6_Witness ==
    /\ cardLog.outcome = "accepted"
    /\ cardLog.visit = "failed"
    /\ jobsToSave[Len(jobsToSave)].type = "Internal"

(* C7: the pages fetched are 1, 2, ... in increasing order, never more than
   MAX_PAGES_TO_SEARCH of them, and a run whose loop ends on the page
   counter (not on limits, an empty page, a CAPTCHA or a fatal error) has
   fetched exactly MAX_PAGES_TO_SEARCH pages.                              *)
C7_ExactlyMaxPages ==
    /\ \A k \in 1..Len(fetched) : fetched[k] = k
    /\ Len(fetched) <= MAX_PAGES_TO_SEARCH
    /\ (AfterLoop /\ stopReason = "maxPages") => Len(fetched) = MAX_PAGES_TO_SEARCH

(* a run over at least two pages, with records accepted, that ended on the
   page counter                                                            *)
C7_Witness ==
    /\ pc = "exit" /\ stopReason = "maxPages"
    /\ MAX_PAGES_TO_SEARCH >= 2
    /\ Len(fetched) = MAX_PAGES_TO_SEARCH
    /\ jobsToSave # <<>>

(* C8: a page is fetched, and a detail page opened, only while the two
   limits are not both reached; at the loop head with pages left and at
   most one limit reached the next step is the fetch of the page.          *)
C8_StopBeforeFetch ==
    [][/\ (fetched' # fetched /\ fetched' # <<>>) => ~BothFull
       /\ (pc = "detail" /\ pc' # "detail") => ~BothFull
       /\ (pc = "loop" /\ page <= MAX_PAGES_TO_SEARCH /\ ~BothFull)
             => fetched' = Append(fetched, page)
       /\ (pc = "loop" /\ BothFull) => (fetched' = fetched /\ pc' = "save")]_vars

(* the second page is being scanned with exactly one limit reached *)
C8_Witness ==
    /\ pc = "cards" /\ Len(fetched) = 2
    /\ INTERNAL_JOBS_LIMIT >= 1
    /\ internalCount = INTERNAL_JOBS_LIMIT
    /\ externalCount < EXTERNAL_JOBS_LIMIT

(* C9, as stated: with an empty email or password the search phase runs
   anonymously.                                                            *)
C9_AnonymousWithoutCredentials ==
    ((EMAIL = "" \/ PASSWORD = "") /\ pc \in {"loop", "cards", "save"}) => ~isLoggedIn

(* C9, amended: with an empty email or password no login call ever
   navigates or logs in, the login phase goes on to the search phase
   without calling login and without changing the session, which is
   anonymous unless the stored cookies were restored and confirmed; at
   startup login is called only when the session is not authenticated and
   both credentials are non-empty.                                         *)
C9_NoLoginWithoutCredentials ==
    /\ []((EMAIL = "" \/ PASSWORD = "") => (loginNavs = 0 /\ session # "login"))
    /\ [][pc = "login" =>
            /\ (EMAIL = "" \/ PASSWORD = "")
                  => (pc' = "loop" /\ loginCalls' = loginCalls /\ session' = session)
            /\ loginCalls' # loginCalls
                  => (session = "none" /\ EMAIL # "" /\ PASSWORD # "")
            /\ (session = "none" /\ EMAIL # "" /\ PASSWORD # "")
                  => loginCalls' = loginCalls + 1]_vars
    /\ [][(pc = "restore" /\ session' # session) => (cookieFile /\ session' = "cookies")]_vars

(* pages are being scanned without a session after login was called with
   the password missing (on a crash recovery) and returned false           *)
C9_Witness ==
    /\ EMAIL # "" /\ PASSWORD = ""
    /\ loginCalls >= 1 /\ loginNavs = 0
    /\ pc = "cards" /\ session = "none"

(* C10: once the scanner has met the CAPTCHA marker on a page without
   container and cards, the error raised is handled as a stop of the page
   loop: no page is fetched after that one, no driver is initialized, no
   login is called, and the driver lives until the final cleanup.          *)
C10_CaptchaStopsPaging ==
    /\ [](captchaPage # 0 =>
            /\ pc \in {"pageError", "save", "finally", "exit"}
            /\ fetched[Len(fetched)] = captchaPage
            /\ pc # "pageError" => stopReason = "captcha")
    /\ [][captchaPage # 0 =>
            /\ fetched' = fetched /\ reinits' = reinits /\ loginCalls' = loginCalls
            /\ pc # "finally" => driver' = driver]_vars

(* a run that accepted records on the first page and stopped on the CAPTCHA
   of the second                                                           *)
C10_Witness ==
    /\ captchaPage = 2 /\ pc = "exit"
    /\ stopReason = "captcha" /\ reinits = 0
    /\ jobsToSave # <<>>

(* C11 as stated: once a CAPTCHA/OTP challenge was detected, by the
   loginToNaukri call that just returned or by the scan of a results page,
   no search-results page is fetched and login is not called again.        *)
C11_ChallengeAbortsRun ==
    [][(loginChallenge \/ captchaPage # 0)
          => (fetched' = fetched /\ loginCalls' = loginCalls)]_vars

(* C11: a CAPTCHA met by the scan of a results page ends the page loop, no
   page being fetched afterwards; a loginToNaukri call that stops on the
   CAPTCHA/OTP check is a single attempt that returns false, saves no
   cookies and lets the run go on to the page loop without a session.      *)
C11_ChallengeStopsStep ==
    /\ [](captchaPage # 0 => pc \notin {"loop", "cards", "detail", "inDetail"})
    /\ [][captchaPage # 0 => fetched' = fetched]_vars
    /\ [][(loginCalls' # loginCalls /\ loginChallenge') =>
            /\ loginCalls' = loginCalls + 1
            /\ loginNavs' = loginNavs + 1
            /\ session' = "none"
            /\ cookieFile' = cookieFile
            /\ pc' = "loop"]_vars

(* the startup login stopped on the challenge and the run is at the head
   of the page loop without a session                                      *)
C11_Witness ==
    /\ loginChallenge /\ loginCalls = 1 /\ loginNavs = 1 /\ session = "none"
    /\ pc = "loop" /\ fetched = <<>>

(* C12 as stated: every page error whose message holds a session-death
   keyword is handled by the crash recovery: the driver is replaced, login
   is called again and the loop resumes at the next page with the batch,
   the counts and the known URLs untouched, unless building the new driver
   fails, which aborts the run.                                            *)
C12_SessionDeathRecovers ==
    [][(pc = "pageError" /\ pageError.session) =>
          \/ /\ reinits' = reinits + 1
             /\ loginCalls' = loginCalls + 1
             /\ driver' = "live"
             /\ page' = page + 1
             /\ pc' = "loop"
             /\ UNCHANGED bookVars
          \/ /\ pc' = "fatal"
             /\ driver' = "none"
             /\ UNCHANGED bookVars]_vars

(* C13 as stated: whenever a card is about to be processed the current
   context is the original search-results window, that window is open and
   no detail tab is open; and the cleanup of a card whose detail tab is
   open closes that tab and leaves the original window open.               *)
C13_CleanupRestoresWindow ==
    /\ [](pc = "cards" => (currentWindow = "original" /\ originalOpen /\ ~detailTabOpen))
    /\ [][(pc = "cleanup" /\ detailTabOpen) => (~detailTabOpen' /\ originalOpen')]_vars

(* C14: when the switch back to the original window fails after a detail
   visit, the card adds nothing to the batch, the counts or the known URLs,
   the card loop of the page ends there (the remaining cards are dropped,
   the run goes on with page + 1) and the card's URL is in no record.      *)
C14_SwitchBackFailureEndsPage ==
    /\ [](cardLog.outcome = "switchBack" =>
            /\ pc = "pageDone"
            /\ \A k \in 1..Len(jobsToSave) : jobsToSave[k].url # cardLog.url)
    /\ [][(pc = "cleanup" /\ pc' # "accept") =>
            /\ cardLog'.outcome = "switchBack"
            /\ pc' = "pageDone"
            /\ UNCHANGED <<bookVars, i, jobCards>>]_vars
    /\ [][pc = "pageDone" =>
            /\ pc' = "loop" /\ page' = page + 1 /\ jobCards' = <<>>
            /\ UNCHANGED bookVars]_vars

(* the switch back failed on the first of two cards of the second page, in
   a run that already holds a record                                       *)
C14_Witness ==
    /\ cardLog.outcome = "switchBack" /\ cardLog.visit = "ok"
    /\ page = 2 /\ i = 1 /\ Len(jobCards) = 2
    /\ jobsToSave # <<>>

(* C16: whichever way the run ends (page cap, both limits, no results, end
   of results, CAPTCHA stop, outermost catch), a non-empty batch has been
   given to the JSON file write, and to the bulk upsert unless the run
   ended in the outermost catch with the store connection not alive.       *)
C16_BatchPersistedOnEveryPath ==
    /\ [](pc = "exit" =>
            stopReason \in {"maxPages", "limits", "noResults", "endOfResults",
                            "captcha", "fatal"})
    /\ []((pc \in {"finally", "exit"} /\ jobsToSave # <<>>) =>
            /\ saveLog.file \in {"written", "failed"}
            /\ saveLog.db \in {"upserted", "failed", "skipped"}
            /\ saveLog.db = "skipped" => stopReason = "fatal"
            /\ saveLog.file = "written" => outFile = jobsToSave)

(* a run that ended in the outermost catch with a record in the batch wrote
   the file and upserted the batch                                         *)
C16_Witness ==
    /\ pc = "exit" /\ stopReason = "fatal" /\ jobsToSave # <<>>
    /\ saveLog.file = "written" /\ saveLog.db = "upserted"

(* C17 as stated: the exit status is 1 exactly when the run ended through
   the outermost catch, and 0 on a clean completion.                       *)
C17_ExitStatusTellsFailure ==
    pc = "exit" => (exitCode = "1" <=> stopReason = "fatal")

(* C18: in the save step a non-empty batch goes to the bulk upsert and then
   to the JSON file whether or not the upsert failed, and a written file
   holds exactly the records of the operations handed to the upsert.       *)
C18_BackupIndependentOfStore ==
    /\ [][(pc = "save" /\ jobsToSave # <<>>) =>
            /\ saveLog'.db \in {"upserted", "failed"}
            /\ saveLog'.file \in {"written", "failed"}
            /\ saveLog'.ops = Operations(jobsToSave)
            /\ pc' = "finally"]_vars
    /\ []((saveLog.file = "written" /\ saveLog.db # "skipped") =>
            outFile = [k \in DOMAIN saveLog.ops |-> saveLog.ops[k].set])

(* the bulk upsert failed and the file was written all the same *)
C18_Witness ==
    /\ pc = "exit" /\ stopReason # "fatal"
    /\ saveLog.db = "failed" /\ saveLog.file = "written"
    /\ Len(outFile) = 1

(* C15 as stated: the description of the record is never shorter than the
   description the card's snippet chain resolved, and when the detail
   visit threw the record keeps that summary description.                  *)
C15_DescriptionNeverRegresses ==
    fpc = "recorded" =>
        /\ Len(recordDescription) >= Len(summaryDescription)
        /\ (detailError.raised => recordDescription = summaryDescription)

(* a candidate whose element is found and whose text is read and non-empty *)
C19_Matches(c) ==
    c.find = "found" /\ c.text \notin TextErrors \cup {NotFound, ""}
C19_FirstMatch(cands) ==
    IF \E k \in 1..Len(cands) : C19_Matches(cands[k])
    THEN CHOOSE k \in 1..Len(cands) :
            C19_Matches(cands[k]) /\ \A j \in 1..(k - 1) : ~C19_Matches(cands[j])
    ELSE 0

(* C19 as stated: the value of a chained field is the text of the first
   candidate that is found with a non-empty text, no candidate after it is
   attempted, and the value is the default sentinel when there is none.    *)
C19_FirstNonEmptyWins ==
    chainLog.field # "none" =>
        LET n == C19_FirstMatch(chainLog.cands)
        IN IF n = 0
           THEN chainLog.value = DefaultOf(chainLog.field)
           ELSE /\ chainLog.value = trim(chainLog.cands[n].text)
                /\ chainLog.value # DefaultOf(chainLog.field)
                /\ chainLog.attempts = n

(* a candidate that is found with a non-empty text other than the sentinel *)
C19_Succeeds(c, sentinel) == C19_Matches(c) /\ trim(c.text) # sentinel
C19_FirstSuccess(cands, sentinel) ==
    IF \E k \in 1..Len(cands) : C19_Succeeds(cands[k], sentinel)
    THEN CHOOSE k \in 1..Len(cands) :
            C19_Succeeds(cands[k], sentinel)
                /\ \A j \in 1..(k - 1) : ~C19_Succeeds(cands[j], sentinel)
    ELSE 0

(* C19 amended: the value of a chained field is the text of the first
   candidate that is found with a non-empty text other than the field's
   default sentinel, the candidates after it are not attempted, and the
   value is the default sentinel, with every candidate attempted, when
   there is none.                                                          *)
C19_FirstSuccessWins ==
    chainLog.field # "none" =>
        LET n == C19_FirstSuccess(chainLog.cands, DefaultOf(chainLog.field))
        IN IF n = 0
           THEN /\ chainLog.value = DefaultOf(chainLog.field)
                /\ chainLog.attempts = Len(chainLog.cands)
           ELSE /\ chainLog.value = trim(chainLog.cands[n].text)
                /\ chainLog.value # DefaultOf(chainLog.field)
                /\ chainLog.attempts = n

(* a chain whose first element shows the sentinel text and whose second
   shows a real text, which becomes the value                              *)
C19_Witness ==
    /\ chainLog.field = "salary"
    /\ chainLog.cands[1] = Candidate("found", DefaultOf("salary"))
    /\ chainLog.cands[2].find = "found" /\ chainLog.cands[2].text \in Texts
    /\ chainLog.value = chainLog.cands[2].text
    /\ chainLog.attempts = 2

(* C20: a safe helper never passes an error on: when the driver call inside
   it throws (or its element is null) safeFindElement gives null,
   safeFindElements the empty list, safeGetText its default and
   safeGetAttribute null; when the call succeeds they hand back what it
   found; so no fallback chain ever yields a thrown error as a value.      *)
C20_SafeHelpersSwallowErrors ==
    /\ safeLog.helper # "none" =>
          /\ safeLog.result.value # Thrown
          /\ safeLog.helper = "safeFindElement" =>
                safeLog.result.value
                    = (IF safeLog.input.arg \in FindErrors THEN NULL ELSE Element)
          /\ safeLog.helper = "safeFindElements" =>
                safeLog.result.list
                    = (IF safeLog.input.arg \in FindErrors THEN <<>> ELSE safeLog.input.list)
          /\ (safeLog.helper = "safeGetText"
                /\ safeLog.input.arg \in TextErrors \cup {NotFound, ""}) =>
                safeLog.result.value = safeLog.input.dflt
          /\ (safeLog.helper = "safeGetAttribute"
                /\ safeLog.input.arg \in {NotFound, Thrown}) =>
                safeLog.result.value = NULL
    /\ chainLog.field # "none" => chainLog.value \notin {Thrown} \cup FindErrors \cup TextErrors

(* findElement threw an error other than NoSuchElementError inside
   safeFindElement, which returned null                                    *)
C20_Witness ==
    /\ safeLog.helper = "safeFindElement"
    /\ safeLog.input.arg = "WebDriverError"
    /\ safeLog.result.value = NULL

(* C21: checkIfLoggedIn returns true only when the current URL is one of
   the members-only area or some logged-in indicator is located and
   displayed; with neither, and in particular when every probe errors, it
   returns false.                                                          *)
C21_LoginCheckFailsClosed ==
    unitLog.unit = "checkIfLoggedIn" =>
        LET p == unitLog.input
        IN unitLog.output
             = (\/ p.url = "member"
                \/ \E k \in 1..Len(p.loggedIn) : p.loggedIn[k] = "displayed")

(* every probe of the login check threw, and the check said false *)
C21_Witness ==
    /\ unitLog.unit = "checkIfLoggedIn"
    /\ unitLog.input.url = "error"
    /\ \A k \in 1..Len(unitLog.input.loggedIn) : unitLog.input.loggedIn[k] = "error"
    /\ \A k \in 1..Len(unitLog.input.loggedOut) : unitLog.input.loggedOut[k] = "error"
    /\ unitLog.output = FALSE

(* C23 as stated: tryRestoreCookies reports false without navigating when
   there is no cookie file; when an exception occurs during restoration
   the cookie file is deleted and it reports false; otherwise it reports
   true, whether or not some cookie could not be injected.                 *)
C23_RestoreSessionOutcomes ==
    unitLog.unit = "tryRestoreCookies" =>
        LET in == unitLog.input
            out == unitLog.output
        IN IF ~in.exists THEN ~out.result /\ ~out.navigated
           ELSE IF in.ending \in {"readError", "driverError"}
           THEN ~out.result /\ ~out.file
           ELSE out.result /\ out.file

(* C23 amended: tryRestoreCookies reports false without navigating when
   there is no cookie file; when an exception occurs during restoration it
   tries to delete the cookie file and reports false, the file being gone
   unless the deletion itself fails, which is only logged; otherwise it
   reports true and leaves the file, whether or not some cookie could not
   be injected.                                                            *)
C23_RestoreSessionAttemptsDelete ==
    unitLog.unit = "tryRestoreCookies" =>
        LET in == unitLog.input
            out == unitLog.output
        IN IF ~in.exists THEN ~out.result /\ ~out.navigated /\ ~out.unlinked
           ELSE IF in.ending \in {"readError", "driverError"}
           THEN ~out.result /\ out.unlinked /\ (out.file = ~in.unlinkOk)
           ELSE out.result /\ out.file /\ ~out.unlinked

(* a cookie could not be injected, which was ignored: restored, file kept *)
C23_Witness ==
    /\ unitLog.unit = "tryRestoreCookies"
    /\ unitLog.input.exists /\ unitLog.input.ending = "cookieErrors"
    /\ unitLog.output.result /\ unitLog.output.file

(* C22 as stated: once tryRestoreCookies has returned true and
   checkIfLoggedIn false, the cookie file is gone, so that no later run
   can restore it unless a successful login writes it again.               *)
C22_FailedCheckDiscardsStore ==
    (pc = "login" /\ restored = "true" /\ session = "none") => ~cookieFile

(* C24: saveCookies is called, and the cookie file comes to exist, only in
   the step of a loginToNaukri call that returned true, at startup or in
   the crash recovery; a failed or challenged login, a start without
   credentials and a start with a session restored from cookies leave the
   cookie file as it is.                                                   *)
C24_CookiesSavedOnlyOnLogin ==
    /\ [][cookiesSaved' =>
            /\ pc \in {"login", "pageError"}
            /\ loginCalls' = loginCalls + 1
            /\ session' = "login"]_vars
    /\ [][(~cookieFile /\ cookieFile') => cookiesSaved']_vars
    /\ [][(loginCalls' # loginCalls /\ session' # "login") =>
            (~cookiesSaved' /\ cookieFile' = cookieFile)]_vars
    /\ [][(pc = "login" /\ (session = "cookies" \/ EMAIL = "" \/ PASSWORD = "")) =>
            (~cookiesSaved' /\ cookieFile' = cookieFile)]_vars

(* the re-login of a crash recovery succeeded and saveCookies wrote the file *)
C24_Witness ==
    /\ cookiesSaved /\ cookieFile /\ session = "login"
    /\ reinits = 1 /\ pc = "loop"

(* the scan of this step found neither a container nor a card, and no
   CAPTCHA marker in the page source                                       *)
C28_NothingFound == scanLog'.scanned /\ fetched' # fetched /\ ~scanLog'.found /\ ~scanLog'.captcha

(* C28 as stated: when a scan finds neither a container nor a card and no
   CAPTCHA marker, the loop stops normally on a page other than page 1 and
   goes on to the (empty) card loop of page 1, from which it advances to
   page 2.                                                                 *)
C28_BarePageStopsOrAdvances ==
    [][C28_NothingFound =>
          IF page > 1
          THEN pc' = "save" /\ stopReason' \in {"endOfResults", "noResults"}
          ELSE pc' = "cards" /\ jobCards' = <<>> /\ stopReason' = "none"]_vars

(* C28 amended: when a scan finds neither a container nor a card and
   neither a CAPTCHA nor a no-results marker, on a page other than page 1
   the loop stops as end-of-results and the run goes to the save step with
   the batch as it is; on page 1 no error is raised, the card loop is
   entered with no cards and the loop advances to page 2.                  *)
C28_BarePageWithoutMarkers ==
    /\ [][(C28_NothingFound /\ ~scanLog'.noResults /\ ~scanLog'.banner) =>
            IF page > 1
            THEN /\ pc' = "save" /\ stopReason' = "endOfResults"
                 /\ jobsToSave' = jobsToSave
            ELSE /\ pc' = "cards" /\ jobCards' = <<>> /\ stopReason' = "none"
                 /\ page' = 1]_vars
    /\ [][(scanLog.scanned /\ ~scanLog.found /\ page = 1 /\ pc \in {"cards", "pageDone"}) =>
            \/ pc = "cards" /\ pc' = "pageDone" /\ page' = 1 /\ scanLog' = scanLog
            \/ pc = "pageDone" /\ pc' = "loop" /\ page' = 2]_vars

(* page 1 showed nothing at all: the empty card loop is over and the loop
   is about to advance to page 2                                           *)
C28_Witness ==
    /\ scanLog.scanned /\ ~scanLog.found /\ ~scanLog.captcha
    /\ ~scanLog.noResults /\ ~scanLog.banner
    /\ fetched = <<1>> /\ page = 1 /\ pc = "pageDone"
    /\ stopReason = "none" /\ reinits = 0

(* the scan of this step found neither a container nor a card, and the
   no-results text in the page source                                      *)
C29_MarkerFound == scanLog'.scanned /\ fetched' # fetched /\ ~scanLog'.found /\ scanLog'.noResults

(* C29 as stated: a no-results marker on a page without container and
   cards stops the page loop without an error and without a new driver,
   and no page is fetched afterwards.                                      *)
C29_NoResultsIsTerminal ==
    /\ [][C29_MarkerFound =>
            /\ pc' = "save" /\ stopReason' = "noResults"
            /\ reinits' = reinits /\ driver' = driver]_vars
    /\ [][stopReason = "noResults" => fetched' = fetched]_vars

(* C29 amended: a no-results marker on a page without container and cards
   whose source holds no CAPTCHA marker stops the page loop without an
   error and without a new driver, and no page is fetched afterwards; the
   same holds for a displayed no-results element on a page 1 without
   cards.                                                                  *)
C29_NoResultsWithoutCaptcha ==
    /\ [][((C29_MarkerFound /\ ~scanLog'.captcha)
              \/ (scanLog'.scanned /\ fetched' # fetched /\ scanLog'.banner)) =>
            /\ pc' = "save" /\ stopReason' = "noResults"
            /\ reinits' = reinits /\ driver' = driver
            /\ pageError' = NoError]_vars
    /\ [][stopReason = "noResults" =>
            (fetched' = fetched /\ reinits' = reinits /\ pc' \notin {"loop", "pageError"})]_vars

(* page 2 showed the no-results text and no container: the run ended
   there, cleanly                                                          *)
C29_Witness ==
    /\ scanLog.scanned /\ ~scanLog.found /\ scanLog.noResults /\ ~scanLog.captcha
    /\ fetched = <<1, 2>> /\ stopReason = "noResults" /\ pc = "exit"
    /\ exitCode = "0"

(* C25 as stated: a card whose processing met an exception, be it at the
   start of the card or during its detail-page visit, yields no record and
   leaves the counts and the known URLs as they were.                      *)
C25_CardFailureSkipsCard ==
    [][(pc \in {"cards", "accept"} /\ cardLog' # cardLog
          /\ (cardLog'.outcome = "error" \/ cardLog'.visit = "failed")) =>
            /\ cardLog'.outcome # "accepted"
            /\ UNCHANGED bookVars]_vars

(* C26: after the bulk write every batch record has exactly one document
   under its Job URL, holding the record and lastUpdated of this save; a
   document that existed keeps its firstScraped, a new one has firstScraped
   of this save; documents of other URLs are untouched.                    *)
C26_UpsertByUrl ==
    unitLog.unit = "bulkWrite" =>
        LET docs == unitLog.input.docs
            batch == unitLog.input.batch
            now == unitLog.input.now
            out == unitLog.output
            urls == {batch[k].url : k \in 1..Len(batch)}
        IN /\ DOMAIN out = DOMAIN docs \cup urls
           /\ \A k \in 1..Len(batch) :
                LET u == batch[k].url
                IN /\ out[u].job = batch[k]
                   /\ out[u].lastUpdated = now
                   /\ out[u].firstScraped
                        = (IF u \in DOMAIN docs THEN docs[u].firstScraped ELSE now)
           /\ \A u \in DOMAIN docs \ urls : out[u] = docs[u]

(* one record of the batch updated a stored document, another was inserted *)
C26_Witness ==
    /\ unitLog.unit = "bulkWrite"
    /\ Len(unitLog.input.batch) = 2
    /\ unitLog.input.batch[1].url \in DOMAIN unitLog.input.docs
    /\ unitLog.input.batch[2].url \notin DOMAIN unitLog.input.docs
    /\ unitLog.output[unitLog.input.batch[1].url].firstScraped < unitLog.input.now
    /\ unitLog.output[unitLog.input.batch[2].url].firstScraped = unitLog.input.now

(* C30: initializeDriver makes at most MAX_RETRIES builds; it returns the
   driver of the first build that succeeds and builds no more; it waits
   SHORT_WAIT after each failed build that is followed by another; and it
   raises exactly when the first MAX_RETRIES builds all fail.              *)
C30_DriverInitBounded ==
    unitLog.unit = "initializeDriver" =>
        LET builds == unitLog.input
            out == unitLog.output
            firstOk == {k \in 1..MAX_RETRIES :
                          builds[k] = "ok" /\ \A j \in 1..(k - 1) : builds[j] = "fail"}
        IN /\ out.attempts <= MAX_RETRIES
           /\ out.result = "throw" <=> (\A k \in 1..MAX_RETRIES : builds[k] = "fail")
           /\ out.result = "driver" => out.driver \in firstOk /\ out.attempts = out.driver
           /\ out.result = "throw" => out.attempts = MAX_RETRIES
           /\ Len(out.waits) = out.attempts - 1
           /\ \A k \in 1..Len(out.waits) : out.waits[k] = SHORT_WAIT

(* two builds failed, the third gave the driver, after two waits *)
C30_Witness ==
    /\ unitLog.unit = "initializeDriver"
    /\ unitLog.output.result = "driver"
    /\ unitLog.output.attempts = MAX_RETRIES
    /\ Len(unitLog.output.waits) = 2

(* an apply-on-company-site control the check found displayed: an element
   of some selector's result that answered displayed, every element before
   it under that selector having answered hidden                           *)
C27_FoundDisplayed(controls) ==
    \E s \in 1..Len(controls) :
        /\ controls[s].found
        /\ \E k \in 1..Len(controls[s].elements) :
             /\ controls[s].elements[k] = "displayed"
             /\ \A j \in 1..(k - 1) : controls[s].elements[j] = "hidden"

(* C27: the type is Internal or External; it is External exactly when an
   apply-on-company-site control was found displayed; controls that are
   absent or not displayed leave it Internal, whatever the standard Apply
   button does, its absence included.                                      *)
C27_ExternalOnlyWhenDisplayed ==
    unitLog.unit = "applicationType" =>
        /\ unitLog.output \in {"Internal", "External"}
        /\ unitLog.output = "External" <=> C27_FoundDisplayed(unitLog.input.controls)
        /\ (\A s \in 1..Len(unitLog.input.controls) :
              \A k \in 1..Len(unitLog.input.controls[s].elements) :
                 unitLog.input.controls[s].elements[k] # "displayed")
             => unitLog.output = "Internal"

(* a control present but hidden and no standard Apply button: Internal *)
C27_Witness ==
    /\ unitLog.unit = "applicationType"
    /\ unitLog.input.controls[1].found
    /\ unitLog.input.controls[1].elements = <<"hidden">>
    /\ unitLog.input.apply = "absent"
    /\ unitLog.output = "Internal"

(* number of items of s equal to c *)
RECURSIVE C31_Count(_, _)
C31_Count(s, c) ==
    IF s = <<>> THEN 0
    ELSE (IF Head(s) = c THEN 1 ELSE 0) + C31_Count(Tail(s), c)

C31_HasParameter(in) == ExperienceGiven(in.experience) \/ in.page > 1

(* C31 as stated: every search URL with a query parameter holds exactly
   one '?'.                                                                *)
C31_ExactlyOneQuestionMark ==
    (unitLog.unit = "currentPageUrl" /\ C31_HasParameter(unitLog.input))
        => C31_Count(unitLog.output, "?") = 1

(* C31: the page-1 URL has no pageNo item; for page N > 1 the URL is the
   base followed by the separator, pageNo= and N, the separator being '&'
   when the base holds the experience parameter and '?' when it does not;
   the URL holds one '?' of its own when it has a parameter, beside those
   the query and the location bring; the formatted query and location hold
   no upper-case letter and no whitespace, one hyphen per whitespace run.  *)
C31_SearchUrlShape ==
    unitLog.unit = "currentPageUrl" =>
        LET in == unitLog.input
            url == unitLog.output
            base == SearchUrlBase(in.query, in.location, in.experience)
            fq == FormatForUrl(in.query, 1)
            runs(s) == Cardinality({k \in 1..Len(s) :
                          IsSpace(s[k]) /\ (k = 1 \/ ~IsSpace(s[k - 1]))})
        IN /\ in.page = 1 => url = base /\ C31_Count(url, "pageNo=") = 0
           /\ in.page > 1 =>
                /\ url = base \o <<(IF C31_Count(base, "experience=") = 1 THEN "&" ELSE "?"),
                                   "pageNo=", ToString(in.page)>>
                /\ C31_Count(url, "pageNo=") = 1
           /\ C31_Count(url, "?")
                = C31_Count(in.query, "?") + C31_Count(in.location, "?")
                  + (IF C31_HasParameter(in) THEN 1 ELSE 0)
           /\ C31_Count(fq, "A") = 0 /\ C31_Count(fq, " ") = 0
           /\ C31_Count(fq, "-") = runs(in.query)
           /\ Len(fq) = Len(in.query) - C31_Count(in.query, " ") + runs(in.query)

(* page 2 of a search with the experience parameter, joined with '&' *)
C31_Witness ==
    /\ unitLog.unit = "currentPageUrl"
    /\ unitLog.input.page = 2
    /\ unitLog.input.experience = "5"
    /\ unitLog.input.query = <<"A", " ">>
    /\ C31_Count(unitLog.output, "&") = 1
    /\ C31_Count(unitLog.output, "?") = 1

(* the step accepts a record *)
C32_Accepts == pc = "accept" /\ cardLog'.outcome = "accepted"

(* C32: once the known URLs are loaded at startup, the known-URL set, the
   counters and the batch change only in the step that accepts a record;
   a card that ends with a missing URL, a duplicate URL, a reached limit
   or a card error, and every page-level step, leave them unchanged; the
   batch only grows at its end, so a record in it is never modified or
   removed.                                                                *)
C32_BookkeepingOnlyOnAccept ==
    [][/\ (bookVars' # bookVars /\ pc # "connect") => C32_Accepts
       /\ (pc = "connect" /\ bookVars' # bookVars) =>
             /\ UNCHANGED <<jobsToSave, internalCount, externalCount, newJobsCount>>
             /\ jobsToSave = <<>>
       /\ (cardLog' # cardLog
             /\ cardLog'.outcome \in {"missingUrl", "duplicate", "limit", "error", "switchBack"})
            => UNCHANGED bookVars
       /\ (pc \notin {"cards", "accept", "connect"}) => UNCHANGED bookVars
       /\ run' = run =>
             /\ Len(jobsToSave') >= Len(jobsToSave)
             /\ \A k \in 1..Len(jobsToSave) : jobsToSave'[k] = jobsToSave[k]
             /\ scrapedUrls \subseteq scrapedUrls']_vars

(* a record is in the batch and a later card was skipped at the limit *)
C32_Witness ==
    /\ Len(jobsToSave) = 1
    /\ cardLog.outcome = "limit"
    /\ newJobsCount = 1

(* C33: the run ends; in every step the page counter stays or grows by
   one, and it grows by one in each step that returns to the head of the
   page loop, after a page, after a page error and after a crash recovery;
   the pages fetched are distinct and at most MAX_PAGES_TO_SEARCH, and so
   are the driver reinitializations.                                       *)
C33_RunTerminates ==
    /\ <>(pc = "exit")
    /\ [][/\ page' = page \/ page' = page + 1
          /\ (pc \in {"pageError", "pageDone"} /\ pc' = "loop") => page' = page + 1
          /\ fetched' # fetched => (fetched' = Append(fetched, page) /\ pc = "loop")]_vars
    /\ [](/\ \A j, k \in 1..Len(fetched) : j < k => fetched[j] < fetched[k]
          /\ Len(fetched) <= MAX_PAGES_TO_SEARCH
          /\ reinits <= Len(fetched)
          /\ reinits <= MAX_PAGES_TO_SEARCH)

(* the run ended after two pages, each followed by a crash recovery *)
C33_Witness ==
    /\ pc = "exit"
    /\ fetched = <<1, 2>>
    /\ reinits = 2

(* number of records of the batch with the given application type *)
C34_CountOf(type) == Cardinality({k \in 1..Len(jobsToSave) : jobsToSave[k].type = type})

(* C34: internalCount and externalCount equal the numbers of Internal and
   External records in the batch, newJobsCount equals their sum and the
   size of the batch, and every URL in the batch is a known URL.           *)
C34_BookkeepingConsistent ==
    /\ internalCount = C34_CountOf("Internal")
    /\ externalCount = C34_CountOf("External")
    /\ newJobsCount = internalCount + externalCount
    /\ newJobsCount = Len(jobsToSave)
    /\ \A k \in 1..Len(jobsToSave) : jobsToSave[k].url \in scrapedUrls

(* a batch with one record of each type *)
C34_Witness ==
    /\ internalCount = 1 /\ externalCount = 1
    /\ Len(jobsToSave) = 2
    /\ jobsToSave[1].type # jobsToSave[2].type

(* C35: the cleanup of a detail visit never closes the search-results
   window: when it is about to close a window, the current context is the
   detail tab, and the original window open before the cleanup is open
   after it.                                                               *)
C35_CleanupKeepsOriginalWindow ==
    /\ []((pc = "cleanup" /\ newWindowHandle) => currentWindow = "detail")
    /\ [][(pc = "cleanup" /\ originalOpen) => originalOpen']_vars

(* C36: a page on which the fallback found a card through one of its card
   locators is not treated as empty or as the end of the results.          *)
C36_FallbackCardIsEnumerated ==
    (scanLog.scanned /\ scanLog.fallback) =>
        /\ stopReason \notin {"endOfResults", "noResults"}
        /\ pc = "cards" => jobCards # <<>>

(* C37: when the loop ends with a URL, the title was read from the same
   link: the URL is the href of some title candidate and the title is the
   text of that candidate, or the not-available default when that link
   gave no text.                                                           *)
C37_TitleAndUrlFromSameElement ==
    (unitLog.unit = "titleAndUrl" /\ Truthy(unitLog.output.url)) =>
        \E k \in 1..Len(unitLog.input) :
            /\ unitLog.input[k].found
            /\ unitLog.output.url = TitleHref(k)
            /\ unitLog.output.title
                 = (IF unitLog.input[k].text = TitleText(k) THEN TitleText(k)
                    ELSE "Not available")

(* C38 as stated: at most one browser is live at any time, and at the exit
   of the run no browser is live and the store connection is closed.       *)
C38_OneDriverAndCleanExit ==
    /\ resources.browsers <= 1
    /\ pc = "exit" => (resources.browsers = 0 /\ ~resources.connOpen)

(* C38: the run holds one driver at most and calls quit on it before it
   builds a replacement, so more than one browser is live only after a
   quit() that threw; on every exit path quit has been called on the
   driver held and close on the store client, and a browser or a
   connection remains only when that quit() or close() threw.              *)
C38_QuitAndCloseAttempted ==
    /\ [](/\ driver = "live" => resources.browsers >= 1
          /\ ~resources.quitFailed =>
                resources.browsers = (IF driver = "live" THEN 1 ELSE 0)
          /\ pc = "exit" =>
                /\ driver # "live"
                /\ mongoClient \in {"none", "closed"}
                /\ ~resources.quitFailed => resources.browsers = 0
                /\ ~resources.closeFailed => ~resources.connOpen)
    /\ [][resources'.browsers > resources.browsers =>
            (driver = "none" \/ pc = "pageError")]_vars

(* the run ended after a crash recovery whose quit() threw and left the old
   browser running; the replacement was quit and the connection closed     *)
C38_Witness ==
    /\ pc = "exit"
    /\ reinits = 1
    /\ resources = [browsers |-> 1, quitFailed |-> TRUE, connOpen |-> FALSE,
                    closeFailed |-> FALSE]
    /\ driver = "quit" /\ mongoClient = "closed"

(* C39: when the card left the not-available sentinel as description and
   some detail locator read a non-empty description, the description after
   the detail loop is a text read from the detail page, not the sentinel.  *)
C39_DetailReplacesSentinel ==
    (/\ unitLog.unit = "detailDescription"
     /\ unitLog.input.snippet = DefaultOf("jobDescription")
     /\ \E k \in 1..Len(unitLog.input.cands) : unitLog.input.cands[k] \in DescTexts)
        => /\ unitLog.output # DefaultOf("jobDescription")
           /\ \E k \in 1..Len(unitLog.input.cands) : unitLog.output = unitLog.input.cands[k]

(* C40: a logged-out indicator is consulted only when the URL test did not
   match and every logged-in indicator was consulted and none was found
   displayed; the function returns false on a displayed login button only
   then, and a URL match or a displayed logged-in indicator gives true
   whatever the login buttons show.                                        *)
C40_LoggedInIndicatorsFirst ==
    unitLog.unit = "checkIfLoggedInSteps" =>
        LET p == unitLog.input
            out == unitLog.output
            matched == \/ p.url = "member"
                       \/ \E k \in 1..Len(p.loggedIn) : p.loggedIn[k] = "displayed"
        IN /\ out.loggedOut > 0 =>
                (~matched /\ out.loggedIn = Len(p.loggedIn))
           /\ out.by = "loginButton" =>
                (/\ out.result = FALSE
                 /\ ~matched
                 /\ p.loggedOut[out.loggedOut] = "displayed")
           /\ matched => (out.result = TRUE /\ out.loggedOut = 0)
           /\ out.result = checkIfLoggedIn(ObserveLogin(p))

(* a logged-in indicator and a login button are both displayed: true, with
   no login button consulted                                               *)
C40_Witness ==
    /\ unitLog.unit = "checkIfLoggedInSteps"
    /\ unitLog.input.url = "other"
    /\ unitLog.input.loggedIn[MaxCand] = "displayed"
    /\ unitLog.input.loggedOut[1] = "displayed"
    /\ unitLog.output.result = TRUE
    /\ unitLog.output.loggedOut = 0

====
